---- MODULE Spec2Model ----
(***************************************************************************)
(* Healthcare voice agent: the scheduling store and engine                 *)
(* (backend/tools/calendar_tools.py), the orchestration pipeline and the   *)
(* session table (backend/agent_router.py, backend/main.py).               *)
(***************************************************************************)
EXTENDS Integers, Sequences, FiniteSets, TLC

VARIABLES
    demo,       \* _demo_appointments: the dict's values in insertion order
    lastCall,   \* the calendar_tools call that has just returned: [op, args, res]
    nOps,       \* number of mutating calendar_tools calls made so far
    _session_histories, \* session id -> the list object it holds (0: no entry)
    lists,      \* the history list objects, by identity
    reqs,       \* the process_request calls, by slot
    nReqs,      \* number of process_request calls started so far
    nOverlaps,  \* number of those started while another call was in flight
    nClears,    \* number of clear_session calls made so far
    turns,      \* per session, every turn appended since it was last cleared
    serial,     \* per session, no call has overlapped another call or a clear
    handle_tool_errors, \* whether the tool node turns a tool's exception into a message
    calendar,   \* the calendar service: its events and how many it has inserted
    use_google_calendar \* settings.use_google_calendar

storeVars == <<demo, calendar, lastCall, nOps>>

----------------------------------------------------------------------------
(* Bounds of the model *)

\* mutating calendar_tools calls (book, cancel, reschedule) per behaviour
MaxOps == 2

\* process_request calls per behaviour of the pipeline specification
MaxRuns == 2

\* process_request calls per behaviour of the session specification
MaxExchanges == 13

\* process_request calls per behaviour that start while another is in flight
MaxOverlaps == 2

\* clear_session calls per behaviour
MaxClears == 1

\* model calls per run of the appointment agent
MaxThinks == 2

\* the recursion limit of a run of the agent graph, in supersteps.  The
\* library's default applies (ainvoke is given no config); it is taken here
\* as the supersteps MaxThinks model calls and their tool passes make.
RecursionLimit == 2 * MaxThinks
MaxOther == 2

----------------------------------------------------------------------------
(* Text: str.lower(), str.upper(), the `in` substring test *)

\* Python's None
None == "<None>"

\* The characters of every name, filter and id the model uses.
Spell(s) ==
    CASE s = "Dr. Smith"     -> <<"D","r","."," ","S","m","i","t","h">>
      [] s = "Dr. Patel"     -> <<"D","r","."," ","P","a","t","e","l">>
      [] s = "Dr. Smithson"  -> <<"D","r","."," ","S","m","i","t","h","s","o","n">>
      [] s = "dr. smith"     -> <<"d","r","."," ","s","m","i","t","h">>
      [] s = "SMITH"         -> <<"S","M","I","T","H">>
      [] s = "Alice Johnson" -> <<"A","l","i","c","e"," ","J","o","h","n","s","o","n">>
      [] s = "Bob Williams"  -> <<"B","o","b"," ","W","i","l","l","i","a","m","s">>
      [] s = "Carol Davis"   -> <<"C","a","r","o","l"," ","D","a","v","i","s">>
      [] s = "Dan Evans"     -> <<"D","a","n"," ","E","v","a","n","s">>
      [] s = "son"           -> <<"s","o","n">>
      [] s = "APT001"        -> <<"A","P","T","0","0","1">>
      [] s = "APT002"        -> <<"A","P","T","0","0","2">>
      [] s = "APT003"        -> <<"A","P","T","0","0","3">>
      [] s = "apt001"        -> <<"a","p","t","0","0","1">>
      [] s = "APT3F2A1B"     -> <<"A","P","T","3","F","2","A","1","B">>
      [] s = "APT9C0D4E"     -> <<"A","P","T","9","C","0","D","4","E">>
      [] s = "apt3f2a1b"     -> <<"a","p","t","3","f","2","a","1","b">>
      [] s = "APT999"        -> <<"A","P","T","9","9","9">>
      [] s = ""              -> <<>>

UpperCase == <<"A","B","C","D","E","F","G","H","I","J","K","L","M",
               "N","O","P","Q","R","S","T","U","V","W","X","Y","Z">>
LowerCase == <<"a","b","c","d","e","f","g","h","i","j","k","l","m",
               "n","o","p","q","r","s","t","u","v","w","x","y","z">>

LowerCh(c) ==
    IF \E i \in 1..Len(UpperCase) : UpperCase[i] = c
    THEN LowerCase[CHOOSE i \in 1..Len(UpperCase) : UpperCase[i] = c]
    ELSE c

UpperCh(c) ==
    IF \E i \in 1..Len(LowerCase) : LowerCase[i] = c
    THEN UpperCase[CHOOSE i \in 1..Len(LowerCase) : LowerCase[i] = c]
    ELSE c

\* str.lower() and str.upper(), on the characters
lower(s) == [i \in 1..Len(Spell(s)) |-> LowerCh(Spell(s)[i])]
upper(s) == [i \in 1..Len(Spell(s)) |-> UpperCh(Spell(s)[i])]

\* needle in hay, on character sequences
IsSubstring(needle, hay) ==
    \E i \in 0..(Len(hay) - Len(needle)) :
        \A k \in 1..Len(needle) : hay[i + k] = needle[k]

\* Python truthiness of an Optional[str] argument
Truthy(s) == s # None /\ s # ""

----------------------------------------------------------------------------
(* Date-time strings and datetime values.                                  *)
(* A start string is kept by its fields in textual order: the date         *)
(* (YYYY-MM-DD, as a day number), the separator that follows it ("" when   *)
(* the string ends after the date), HH:MM as the minute of the day, and    *)
(* the seconds of a trailing ":SS" (NoSec when absent).  A datetime value  *)
(* is a pair <<seconds, microsecond>>.                                     *)

NoSec == -1

DtStr(d, sep, hm, ss) == [day |-> d, sep |-> sep, hm |-> hm, ss |-> ss]

\* f"{date}T{HH:MM}"
DateT(d, hm) == DtStr(d, "T", hm, NoSec)
\* "YYYY-MM-DD HH:MM"
DateSp(d, hm) == DtStr(d, " ", hm, NoSec)
\* "YYYY-MM-DDTHH:MM:SS"
DateTS(d, hm, ss) == DtStr(d, "T", hm, ss)
\* "YYYY-MM-DD", no time of day
DateOnly(d) == DtStr(d, "", 0, NoSec)

HM(h, m) == h * 60 + m

Seconds(d, hm, ss) == d * 86400 + hm * 60 + ss

ValueError == [ok |-> FALSE, val |-> "ValueError"]
Ok(v) == [ok |-> TRUE, val |-> v]

ParseFormats == <<"%Y-%m-%dT%H:%M", "%Y-%m-%d %H:%M", "%Y-%m-%dT%H:%M:%S">>

\* datetime.strptime(s, fmt) for the three formats of _parse_dt
strptime(s, fmt) ==
    CASE fmt = "%Y-%m-%dT%H:%M" ->
            IF s.sep = "T" /\ s.ss = NoSec
            THEN Ok(<<Seconds(s.day, s.hm, 0), 0>>) ELSE ValueError
      [] fmt = "%Y-%m-%d %H:%M" ->
            IF s.sep = " " /\ s.ss = NoSec
            THEN Ok(<<Seconds(s.day, s.hm, 0), 0>>) ELSE ValueError
      [] fmt = "%Y-%m-%dT%H:%M:%S" ->
            IF s.sep = "T" /\ s.ss # NoSec
            THEN Ok(<<Seconds(s.day, s.hm, s.ss), 0>>) ELSE ValueError

RECURSIVE ParseFrom(_, _)
ParseFrom(s, i) ==
    IF i > Len(ParseFormats) THEN ValueError
    ELSE IF strptime(s, ParseFormats[i]).ok THEN strptime(s, ParseFormats[i])
    ELSE ParseFrom(s, i + 1)

_parse_dt(s) == ParseFrom(s, 1)

\* dt.strftime("%Y-%m-%dT%H:%M")
strftime(dt) == DateT(dt[1] \div 86400, (dt[1] % 86400) \div 60)

\* a <= b on datetime values
DtLeq(a, b) == a[1] < b[1] \/ (a[1] = b[1] /\ a[2] <= b[2])

\* dt + timedelta(seconds)
DtPlus(dt, secs) == <<dt[1] + secs, dt[2]>>

\* now.replace(hour=0, minute=0, second=0): the microsecond stays
Midnight(now) == <<(now[1] \div 86400) * 86400, now[2]>>

\* a < b on start strings: str comparison, character by character
SepRank(sep) == CASE sep = "" -> 0 [] sep = " " -> 1 [] sep = "T" -> 2

StrKey(s) ==
    IF s.sep = "" THEN <<s.day, 0, 0, 0>>
    ELSE <<s.day, SepRank(s.sep), s.hm, s.ss + 1>>

StrLess(a, b) ==
    LET ka == StrKey(a)
        kb == StrKey(b)
    IN \E i \in 1..4 : ka[i] < kb[i] /\ \A j \in 1..(i - 1) : ka[j] = kb[j]

----------------------------------------------------------------------------
(* Sequences *)

Range(s) == {s[i] : i \in 1..Len(s)}

\* dict[key] = value: in place when the key is present, appended otherwise
RECURSIVE DictPut(_, _)
DictPut(d, appt) ==
    IF d = <<>> THEN <<appt>>
    ELSE IF Head(d).appointment_id = appt.appointment_id THEN <<appt>> \o Tail(d)
    ELSE <<Head(d)>> \o DictPut(Tail(d), appt)

\* dict.get(key): the position of the key, 0 when absent; keys are compared
\* as strings, character by character
DictFind(d, keyChars) ==
    IF \E i \in 1..Len(d) : Spell(d[i].appointment_id) = keyChars
    THEN CHOOSE i \in 1..Len(d) : Spell(d[i].appointment_id) = keyChars
    ELSE 0

----------------------------------------------------------------------------
(* calendar_tools: the in-memory store and the scheduling engine *)

Appt(id, pid, pname, prov, dt, dur, reason, status) ==
    [appointment_id |-> id, patient_id |-> pid, patient_name |-> pname,
     provider |-> prov, datetime |-> dt, duration_minutes |-> dur,
     reason |-> reason, status |-> status]

\* _seed_demo_data, with now = datetime.now() at import
_seed_demo_data(now) ==
    << Appt("APT001", "P1A2B3", "Alice Johnson", "Dr. Smith",
            strftime(DtPlus(now, 86400 + 2 * 3600)), 30, "Annual checkup", "scheduled"),
       Appt("APT002", "P4C5D6", "Bob Williams", "Dr. Patel",
            strftime(DtPlus(now, 86400 + 4 * 3600)), 45, "Follow-up consultation", "scheduled"),
       Appt("APT003", "P7E8F9", "Carol Davis", "Dr. Smith",
            strftime(DtPlus(now, 2 * 86400 + 3600)), 30, "Blood pressure review", "scheduled") >>

\* an absent Optional[str] date argument
NoneDt == DtStr(0, "None", 0, NoSec)

\* FilterRejects comparing the filter with the name as written
FilterRejectsCased(f, x) == Truthy(f) /\ ~IsSubstring(Spell(f), Spell(x))

\* the name filters of list_appointments: `if f and f.lower() not in x.lower()`
FilterRejects(f, x) == Truthy(f) /\ ~IsSubstring(lower(f), lower(x))

\* the demo-mode loop of list_appointments, before the sort
RECURSIVE ListLoop(_, _, _, _, _)
ListLoop(appts, from_dt, to_dt, patient_name, provider) ==
    IF appts = <<>> THEN Ok(<<>>)
    ELSE LET appt == Head(appts)
             rest == ListLoop(Tail(appts), from_dt, to_dt, patient_name, provider)
             appt_dt == _parse_dt(appt.datetime)
         IN IF appt.status = "cancelled" THEN rest
            ELSE IF ~appt_dt.ok THEN ValueError
            ELSE IF ~(DtLeq(from_dt, appt_dt.val) /\ DtLeq(appt_dt.val, to_dt)) THEN rest
            ELSE IF FilterRejects(patient_name, appt.patient_name) THEN rest
            ELSE IF FilterRejects(provider, appt.provider) THEN rest
            ELSE IF rest.ok THEN Ok(<<appt>> \o rest.val)
            ELSE rest

\* results.sort(key=lambda x: x["datetime"]): stable, by the start strings
RECURSIVE InsertByDatetime(_, _)
InsertByDatetime(x, s) ==
    IF s = <<>> THEN <<x>>
    ELSE IF StrLess(x.datetime, Head(s).datetime) THEN <<x>> \o s
    ELSE <<Head(s)>> \o InsertByDatetime(x, Tail(s))

RECURSIVE SortByDatetime(_)
SortByDatetime(s) ==
    IF s = <<>> THEN <<>>
    ELSE InsertByDatetime(Head(s), SortByDatetime(Tail(s)))

list_appointments(store, date_from, date_to, patient_name, provider, now) ==
    LET from_r == IF date_from # NoneDt THEN _parse_dt(date_from) ELSE Ok(Midnight(now))
        to_r   == IF date_to # NoneDt THEN _parse_dt(date_to)
                  ELSE IF from_r.ok THEN Ok(DtPlus(from_r.val, 7 * 86400)) ELSE from_r
    IN IF ~from_r.ok \/ ~to_r.ok THEN ValueError
       ELSE LET results == ListLoop(store, from_r.val, to_r.val, patient_name, provider)
            IN IF results.ok THEN Ok(SortByDatetime(results.val)) ELSE results

\* the working window and the stride of check_availability
WorkStartHour == 8
WorkEndHour == 17
StrideMinutes == 30

\* Conflict with the exclusion radius closed: abs(...) <= duration_minutes * 60
ConflictClosed(current, booked, duration_minutes) ==
    \E i \in 1..Len(booked) :
        LET diff == current[1] - booked[i][1]
            absd == IF diff < 0 THEN -diff ELSE diff
        IN absd <= duration_minutes * 60

\* any(abs((current - b).total_seconds()) < duration_minutes * 60 for b in booked)
Conflict(current, booked, duration_minutes) ==
    \E i \in 1..Len(booked) :
        LET diff == current[1] - booked[i][1]
            absd == IF diff < 0 THEN -diff ELSE diff
        IN absd < duration_minutes * 60

\* the while loop of check_availability
RECURSIVE SlotLoop(_, _, _, _)
SlotLoop(current, to_dt, booked, duration_minutes) ==
    IF ~DtLeq(DtPlus(current, duration_minutes * 60), to_dt) THEN <<>>
    ELSE (IF Conflict(current, booked, duration_minutes) THEN <<>>
          ELSE <<strftime(current)>>)
         \o SlotLoop(DtPlus(current, StrideMinutes * 60), to_dt, booked, duration_minutes)

check_availability(store, date, provider, duration_minutes) ==
    LET from_r == _parse_dt(DateT(date, HM(WorkStartHour, 0)))
        to_r   == _parse_dt(DateT(date, HM(WorkEndHour, 0)))
        appts  == list_appointments(store, DateT(date, HM(0, 0)), DateT(date, HM(23, 59)),
                                    None, provider, <<0, 0>>)
    IN IF ~appts.ok THEN appts
       ELSE LET booked_start_times ==
                    [i \in 1..Len(appts.val) |-> _parse_dt(appts.val[i].datetime).val]
            IN Ok(SlotLoop(from_r.val, to_r.val, booked_start_times, duration_minutes))

----------------------------------------------------------------------------
(* Inputs of the calendar_tools calls *)

\* datetime.now() at import
BootNows == { <<Seconds(0, HM(7, 15), 20), 1>> }

\* datetime.now() at a later call
CallNows == { <<Seconds(1, HM(10, 0), 5), 1>> }

\* uuid4()[:6].upper() behind "APT"
NewIds == {"APT3F2A1B", "APT9C0D4E"}

\* the start strings given to book_appointment and reschedule_appointment
StartStrings == { DateT(1, HM(16, 0)), DateSp(1, HM(10, 0)),
                  DateTS(1, HM(9, 0), 30), DateOnly(1) }

BookProviders == {"Dr. Smith", "Dr. Smithson"}
BookDurations == {30, 45}
IdArgs == {"apt001", "APT002", "APT3F2A1B", "APT999"}

QueryDates == {1, 2}
QueryProviders == {"Dr. Smith", "SMITH", ""}
QueryDurations == {30, 60}
ListFroms == {NoneDt, DateT(1, HM(9, 15))}
ListTos == {NoneDt, DateT(1, HM(11, 15))}
ListNames == {None, "son"}
ListProviders == {None, "dr. smith"}

----------------------------------------------------------------------------
(* calendar_tools calls as actions *)

Call(op, args, res) == [op |-> op, args |-> args, res |-> res]

NoCall == Call("none", <<>>, Ok(<<>>))

\* the outcome of a mutating call: the store it leaves and what it returns
Outcome(store, res) == [store |-> store, res |-> res]

\* book_appointment on the demo store
Booked(store, appt) == Outcome(DictPut(store, appt), Ok(appt))

\* cancel_appointment that records a cancellation under an id it does not
\* know, instead of raising
CancelledUpserting(store, appointment_id) ==
    LET i == DictFind(store, upper(appointment_id))
    IN IF i = 0
       THEN Booked(store, Appt(appointment_id, "", "", "", DateOnly(0), 30, "", "cancelled"))
       ELSE LET after == [store EXCEPT ![i].status = "cancelled"]
            IN Outcome(after, Ok(after[i]))

\* cancel_appointment on the demo store
Cancelled(store, appointment_id) ==
    LET i == DictFind(store, upper(appointment_id))
    IN IF i = 0 THEN Outcome(store, ValueError)
       ELSE LET after == [store EXCEPT ![i].status = "cancelled"]
            IN Outcome(after, Ok(after[i]))

\* reschedule_appointment on the demo store
Rescheduled(store, appointment_id, new_datetime) ==
    LET i == DictFind(store, upper(appointment_id))
    IN IF i = 0 THEN Outcome(store, ValueError)
       ELSE LET after == [store EXCEPT ![i].datetime = new_datetime]
            IN Outcome(after, Ok(after[i]))

----------------------------------------------------------------------------
(* The calendar-service adapter.  The service keeps the events it was given *)
(* in the order of insertion and names each with an id of its own; a        *)
(* deleted event is no longer listed.  An event keeps its start and end as  *)
(* datetime values.                                                         *)

NoEvents == [items |-> <<>>, inserted |-> 0]

\* the "description" of the event body
Description(appt) ==
    "Patient ID: " \o appt.patient_id \o "\nProvider: " \o appt.provider
        \o "\nReason: " \o appt.reason

\* the event body of _gcal_create as the service stores it under `id`
Event(id, appt, start) ==
    [id |-> id,
     summary |-> appt.patient_name \o " - " \o appt.reason,
     description |-> Description(appt),
     start |-> start,
     end |-> DtPlus(start, appt.duration_minutes * 60),
     status |-> "confirmed",
     private |-> [appointment_id |-> appt.appointment_id,
                  patient_id |-> appt.patient_id,
                  patient_name |-> appt.patient_name,
                  provider |-> appt.provider]]

\* events().list(privateExtendedProperty="appointment_id=<id>"): the service
\* compares the property value as it is; the position of items[0], 0 when
\* the list is empty (ValueError)
_gcal_find_event(cal, appointment_id) ==
    IF \E i \in 1..Len(cal.items) : cal.items[i].private.appointment_id = appointment_id
    THEN CHOOSE i \in 1..Len(cal.items) :
            /\ cal.items[i].private.appointment_id = appointment_id
            /\ \A k \in 1..(i - 1) : cal.items[k].private.appointment_id # appointment_id
    ELSE 0

_gcal_event_to_appt(event) ==
    Appt(event.private.appointment_id, event.private.patient_id,
         event.private.patient_name, event.private.provider,
         strftime(event.start), (event.end[1] - event.start[1]) \div 60,
         event.description,
         IF event.status = "cancelled" THEN "cancelled" ELSE "scheduled")

\* appt["gcal_event_id"] = event["id"]
WithEventId(appt, id) ==
    [f \in DOMAIN appt \cup {"gcal_event_id"} |->
        IF f = "gcal_event_id" THEN id ELSE appt[f]]

\* events().insert(body)
Inserted(cal, appt, start, id) ==
    Outcome([items |-> Append(cal.items, Event(id, appt, start)),
             inserted |-> cal.inserted + 1],
            Ok(WithEventId(appt, id)))

_gcal_create(cal, appt) ==
    IF ~_parse_dt(appt.datetime).ok THEN Outcome(cal, ValueError)
    ELSE Inserted(cal, appt, _parse_dt(appt.datetime).val,
                  "ev" \o ToString(cal.inserted + 1))

\* events().delete(eventId)
Deleted(cal, i) ==
    [cal EXCEPT !.items = SubSeq(cal.items, 1, i - 1)
                            \o SubSeq(cal.items, i + 1, Len(cal.items))]

_gcal_cancel(cal, appointment_id) ==
    IF _gcal_find_event(cal, appointment_id) = 0 THEN Outcome(cal, ValueError)
    ELSE Outcome(Deleted(cal, _gcal_find_event(cal, appointment_id)),
                 Ok([_gcal_event_to_appt(cal.items[_gcal_find_event(cal, appointment_id)])
                        EXCEPT !.status = "cancelled"]))

\* events().update(eventId, body=event) with the new start and a 30-minute end
Updated(cal, i, start) ==
    [cal EXCEPT !.items[i].start = start, !.items[i].end = DtPlus(start, 30 * 60)]

_gcal_reschedule(cal, appointment_id, new_datetime) ==
    IF _gcal_find_event(cal, appointment_id) = 0 THEN Outcome(cal, ValueError)
    ELSE IF ~_parse_dt(new_datetime).ok THEN Outcome(cal, ValueError)
    ELSE Outcome(Updated(cal, _gcal_find_event(cal, appointment_id),
                         _parse_dt(new_datetime).val),
                 Ok(_gcal_event_to_appt(
                        Updated(cal, _gcal_find_event(cal, appointment_id),
                                _parse_dt(new_datetime).val)
                            .items[_gcal_find_event(cal, appointment_id)])))

----------------------------------------------------------------------------
(* The public calendar_tools functions: each goes to the calendar service   *)
(* when settings.use_google_calendar is set and to the demo store otherwise *)

book_appointment(appt_id, patient_id, patient_name, provider, appointment_datetime, reason, duration_minutes) ==
    LET appt == Appt(appt_id, patient_id, patient_name, provider,
                     appointment_datetime, duration_minutes, reason, "scheduled")
    IN /\ lastCall.op = "none"
       /\ nOps < MaxOps
       /\ nOps' = nOps + 1
       /\ IF use_google_calendar
          THEN /\ calendar' = _gcal_create(calendar, appt).store
               /\ lastCall' = Call("book_appointment", <<appt>>,
                                   _gcal_create(calendar, appt).res)
               /\ demo' = demo
          ELSE /\ demo' = Booked(demo, appt).store
               /\ lastCall' = Call("book_appointment", <<appt>>, Booked(demo, appt).res)
               /\ calendar' = calendar

cancel_appointment(appointment_id) ==
    /\ lastCall.op = "none"
    /\ nOps < MaxOps
    /\ nOps' = nOps + 1
    /\ IF use_google_calendar
       THEN /\ calendar' = _gcal_cancel(calendar, appointment_id).store
            /\ lastCall' = Call("cancel_appointment", <<appointment_id>>,
                                _gcal_cancel(calendar, appointment_id).res)
            /\ demo' = demo
       ELSE /\ demo' = Cancelled(demo, appointment_id).store
            /\ lastCall' = Call("cancel_appointment", <<appointment_id>>,
                                Cancelled(demo, appointment_id).res)
            /\ calendar' = calendar

reschedule_appointment(appointment_id, new_datetime) ==
    /\ lastCall.op = "none"
    /\ nOps < MaxOps
    /\ nOps' = nOps + 1
    /\ IF use_google_calendar
       THEN /\ calendar' = _gcal_reschedule(calendar, appointment_id, new_datetime).store
            /\ lastCall' = Call("reschedule_appointment", <<appointment_id, new_datetime>>,
                                _gcal_reschedule(calendar, appointment_id, new_datetime).res)
            /\ demo' = demo
       ELSE /\ demo' = Rescheduled(demo, appointment_id, new_datetime).store
            /\ lastCall' = Call("reschedule_appointment", <<appointment_id, new_datetime>>,
                                Rescheduled(demo, appointment_id, new_datetime).res)
            /\ calendar' = calendar

\* what get_appointment finds: the record, or nothing (None)
Lookup(store, cal, gcal, appointment_id) ==
    IF gcal
    THEN IF _gcal_find_event(cal, appointment_id) = 0 THEN {}
         ELSE {_gcal_event_to_appt(cal.items[_gcal_find_event(cal, appointment_id)])}
    ELSE IF DictFind(store, upper(appointment_id)) = 0 THEN {}
         ELSE {store[DictFind(store, upper(appointment_id))]}

\* Optional[dict]: None, or the one record of the set
Optional(found) == IF found = {} THEN Ok(None) ELSE Ok(CHOOSE a \in found : TRUE)

get_appointment(appointment_id) ==
    /\ lastCall.op = "none"
    /\ lastCall' = Call("get_appointment", <<appointment_id>>,
                        Optional(Lookup(demo, calendar, use_google_calendar, appointment_id)))
    /\ UNCHANGED <<demo, calendar, nOps>>

\* list_appointments and check_availability on the demo store
ListAppointments(date_from, date_to, patient_name, provider, now) ==
    /\ lastCall.op = "none"
    /\ ~use_google_calendar
    /\ lastCall' = Call("list_appointments",
                        <<date_from, date_to, patient_name, provider, now>>,
                        list_appointments(demo, date_from, date_to, patient_name, provider, now))
    /\ UNCHANGED <<demo, calendar, nOps>>

CheckAvailability(date, provider, duration_minutes) ==
    /\ lastCall.op = "none"
    /\ ~use_google_calendar
    /\ lastCall' = Call("check_availability", <<date, provider, duration_minutes>>,
                        check_availability(demo, date, provider, duration_minutes))
    /\ UNCHANGED <<demo, calendar, nOps>>

\* the caller has taken the result; it makes its next call
Return ==
    /\ lastCall.op # "none"
    /\ lastCall' = NoCall
    /\ UNCHANGED <<demo, calendar, nOps>>

----------------------------------------------------------------------------
(* Response text.  A text is the sequence of its pieces; the pieces the    *)
(* code looks at are whitespace (strip) and a final "?" (endswith).        *)

Space == " "
QMark == "?"

EmptyText == <<>>

RECURSIVE lstrip(_)
lstrip(t) == IF t # <<>> /\ Head(t) = Space THEN lstrip(Tail(t)) ELSE t

RECURSIVE rstrip(_)
rstrip(t) ==
    IF t # <<>> /\ t[Len(t)] = Space THEN rstrip(SubSeq(t, 1, Len(t) - 1)) ELSE t

\* str.strip()
strip(t) == rstrip(lstrip(t))

\* str.endswith("?")
EndsWithQuestion(t) == t # <<>> /\ t[Len(t)] = QMark

\* the response of general_response_node when the model call fails
GeneralApology ==
    <<"I'm sorry, I encountered an issue processing your request. Please try again.">>

\* the response of finalize_response for an error with no agent response
TechnicalIssue ==
    <<"I'm sorry, I encountered a technical issue and couldn't complete your request.",
      Space, "Please try again or contact support if the problem persists.">>

\* the response of run_appointment_agent when no AI message has content
UnableToProcess ==
    <<"I'm sorry, I was unable to process your request. Please try again.">>

\* seq[-n:]
LastN(seq, n) == IF Len(seq) <= n THEN seq ELSE SubSeq(seq, Len(seq) - n + 1, Len(seq))

----------------------------------------------------------------------------
(* Intents and the classifier's reply *)

\* dict.get(key, default)
DictGet(d, key, default) == IF key \in DOMAIN d THEN d[key] ELSE default

\* RouterState["intent"] before detect_intent has run
NoIntent == [isNone |-> TRUE]

IsNone(d) == DOMAIN d = {"isNone"}

\* one piece of the classifier's reply: a ``` fence, the word json, or a body
Piece(kind, value) == [kind |-> kind, value |-> value]

Fence == Piece("fence", NoIntent)
JsonWord == Piece("json", NoIntent)

\* a body that is a JSON object with these members
JsonObject(d) == Piece("object", d)

\* a body that is JSON but no object: a list
JsonArray == Piece("array", NoIntent)

\* a body that is no JSON at all
Prose == Piece("prose", NoIntent)

\* the outcome of a model call: it raised e, or it returned content
Raised(e) == [raised |-> TRUE, e |-> e, content |-> <<>>, tool_calls |-> <<>>]
Replied(content) == [raised |-> FALSE, e |-> None, content |-> content, tool_calls |-> <<>>]

\* raw.split("```")[1]: what stands between the first fence and the next
RECURSIVE UpToFence(_)
UpToFence(raw) ==
    IF raw = <<>> \/ Head(raw) = Fence THEN <<>>
    ELSE <<Head(raw)>> \o UpToFence(Tail(raw))

\* the fence stripping of detect_intent
StripFences(raw) ==
    IF raw # <<>> /\ Head(raw) = Fence
    THEN LET inner == UpToFence(Tail(raw))
         IN IF inner # <<>> /\ Head(inner) = JsonWord THEN Tail(inner) ELSE inner
    ELSE raw

\* json.loads: the value of a text that is one JSON body, an error otherwise
json_loads(raw) ==
    IF Len(raw) = 1 /\ raw[1].kind \in {"object", "array"}
    THEN [ok |-> TRUE, val |-> raw[1], e |-> None]
    ELSE [ok |-> FALSE, val |-> Prose, e |-> "Expecting value: line 1 column 1 (char 0)"]

\* Fallback with the type unknown
FallbackUnknown(user_text) ==
    [type |-> "unknown", confidence |-> 3, entities |-> {}, summary |-> user_text]

\* the intent detect_intent falls back to (confidence in tenths)
Fallback(user_text) ==
    [type |-> "general_query", confidence |-> 3, entities |-> {}, summary |-> user_text]

\* detect_intent, given the outcome of the classifier call
detect_intent(state, outcome) ==
    IF outcome.raised
    THEN [state EXCEPT !.intent = Fallback(state.user_text), !.error = outcome.e]
    ELSE LET parsed == json_loads(StripFences(outcome.content))
         IN IF ~parsed.ok
            THEN [state EXCEPT !.intent = Fallback(state.user_text), !.error = parsed.e]
            ELSE IF parsed.val.kind # "object"
            THEN [state EXCEPT !.intent = Fallback(state.user_text),
                               !.error = "'list' object has no attribute 'get'"]
            ELSE [state EXCEPT !.intent = parsed.val.value, !.error = None]

\* APPOINTMENT_INTENTS
APPOINTMENT_INTENTS ==
    {"schedule_appointment", "cancel_appointment", "reschedule_appointment",
     "check_appointments"}

\* route_to_agent sending every intent to the general response
route_all_general(state) == "general_response"

\* route_to_agent
route_to_agent(state) ==
    LET intent_type == DictGet(state.intent, "type", "unknown")
    IN IF IsNone(state.intent) THEN "AttributeError"
       ELSE IF intent_type \in APPOINTMENT_INTENTS THEN "appointment_agent"
       ELSE IF intent_type = "patient_lookup" THEN "appointment_agent"
       ELSE "general_response"

END == "__end__"

\* the edges of _build_router with both agent nodes left out
NextNodeSkippingAgents(node, state) ==
    IF node = "detect_intent" THEN "finalize_response" ELSE END

\* the edges of _build_router: the node that runs after `node`
NextNode(node, state) ==
    CASE node = "detect_intent" -> route_to_agent(state)
      [] node = "appointment_agent" -> "finalize_response"
      [] node = "general_response" -> "finalize_response"
      [] node = "finalize_response" -> END

\* the closings of finalize_response
closings(intent_type) ==
    CASE intent_type = "schedule_appointment" ->
            <<Space, "Is there anything else I can help you with", QMark>>
      [] intent_type = "cancel_appointment" ->
            <<Space, "The appointment has been cancelled.", Space,
              "Is there anything else", QMark>>
      [] intent_type = "reschedule_appointment" ->
            <<Space, "The appointment has been rescheduled.", Space,
              "Is there anything else", QMark>>
      [] intent_type = "check_appointments" ->
            <<Space, "Let me know if you need more details.">>
      [] intent_type = "patient_lookup" ->
            <<Space, "Let me know if you need anything else.">>
      [] OTHER -> EmptyText

\* finalize_response appending the closing to a question as well
finalize_closing_questions(state) ==
    LET agent_resp == state.agent_response
    IN IF Truthy(state.error) /\ agent_resp = EmptyText
       THEN [state EXCEPT !.final_response = TechnicalIssue, !.goal_achieved = FALSE]
       ELSE IF state.goal_achieved /\ agent_resp # EmptyText /\ strip(agent_resp) # EmptyText
       THEN [state EXCEPT !.final_response =
                 strip(agent_resp) \o closings(DictGet(state.intent, "type", ""))]
       ELSE [state EXCEPT !.final_response = agent_resp]

\* finalize_response
finalize_response(state) ==
    LET agent_resp == state.agent_response
    IN IF Truthy(state.error) /\ agent_resp = EmptyText
       THEN [state EXCEPT !.final_response = TechnicalIssue, !.goal_achieved = FALSE]
       ELSE IF state.goal_achieved /\ agent_resp # EmptyText
                 /\ strip(agent_resp) # EmptyText /\ ~EndsWithQuestion(strip(agent_resp))
       THEN [state EXCEPT !.final_response =
                 strip(agent_resp) \o closings(DictGet(state.intent, "type", ""))]
       ELSE [state EXCEPT !.final_response = agent_resp]

\* general_response_node, given the outcome of the model call
general_response_node(state, outcome) ==
    IF outcome.raised
    THEN [state EXCEPT !.agent_response = GeneralApology, !.goal_achieved = FALSE,
                       !.error = outcome.e]
    ELSE [state EXCEPT !.agent_response = outcome.content, !.goal_achieved = TRUE]

----------------------------------------------------------------------------
(* The appointment agent: messages, tool requests, the tool node *)

Msg(kind, content, tool_calls) ==
    [kind |-> kind, content |-> content, tool_calls |-> tool_calls]

SystemMessage == Msg("system", <<"SYSTEM_PROMPT">>, <<>>)
HumanMessage(content) == Msg("human", content, <<>>)
AIMessage(content, tool_calls) == Msg("ai", content, tool_calls)
ToolMessage(content) == Msg("tool", content, <<>>)

ToolCall(name, args) == [name |-> name, args |-> args]

\* a model reply that asks for tools
Requested(content, calls) ==
    [raised |-> FALSE, e |-> None, content |-> content, tool_calls |-> calls]

\* the prior turns run_appointment_agent injects, as messages
RECURSIVE InjectTurns(_)
InjectTurns(history) ==
    IF history = <<>> THEN <<>>
    ELSE <<IF Head(history).role = "user" THEN HumanMessage(Head(history).text)
           ELSE AIMessage(Head(history).text, <<>>)>> \o InjectTurns(Tail(history))

\* the messages run_appointment_agent starts the graph with
AgentMessages(user_text, conversation_history) ==
    <<SystemMessage>> \o InjectTurns(LastN(conversation_history, 6))
        \o <<HumanMessage(user_text)>>

\* should_continue that ends the graph whatever the reply requests
should_continue_ending(messages) == END

\* should_continue
should_continue(messages) ==
    IF messages[Len(messages)].tool_calls # <<>> THEN "tools" ELSE END

\* the result of run_appointment_agent: the last AI message that has content
RECURSIVE LastAIContent(_)
LastAIContent(messages) ==
    IF messages = <<>> THEN UnableToProcess
    ELSE LET msg == messages[Len(messages)]
         IN IF msg.kind = "ai" /\ msg.content # EmptyText THEN msg.content
            ELSE LastAIContent(SubSeq(messages, 1, Len(messages) - 1))

FileNotFoundError == [ok |-> FALSE, val |-> "FileNotFoundError"]

\* what the tools return: json.dumps of these, or the exception passed on
PatientsPayload(r) ==
    IF ~r.ok THEN r
    ELSE IF r.val = <<>> THEN Ok([found |-> FALSE])
    ELSE Ok([found |-> TRUE, count |-> Len(r.val), patients |-> r.val])

AppointmentsPayload(r) ==
    IF ~r.ok THEN r
    ELSE IF r.val = <<>> THEN Ok([found |-> FALSE])
    ELSE Ok([found |-> TRUE, count |-> Len(r.val), appointments |-> r.val])

SlotsPayload(r) ==
    IF ~r.ok THEN r
    ELSE IF r.val = <<>> THEN Ok([available |-> FALSE])
    ELSE Ok([available |-> TRUE, slots |-> r.val, count |-> Len(r.val)])

SuccessPayload(o) ==
    Outcome(o.store, IF o.res.ok THEN Ok([success |-> TRUE, appointment |-> o.res.val])
                     ELSE o.res)

\* one tool of TOOLS run on the store.  new_id and now are the uuid and the
\* clock the call draws, sheet what the patient file holds for the query
\* (Ok(rows), or FileNotFoundError when there is no file).
RunTool(store, call, new_id, now, sheet) ==
    CASE call.name = "search_patient" ->
            Outcome(store, PatientsPayload(sheet))
      [] call.name = "list_appointments" ->
            Outcome(store, AppointmentsPayload(
                list_appointments(store, call.args[1], call.args[2], call.args[3],
                                  call.args[4], now)))
      [] call.name = "check_availability" ->
            Outcome(store, SlotsPayload(
                check_availability(store, call.args[1], call.args[2], call.args[3])))
      [] call.name = "book_appointment" ->
            SuccessPayload(Booked(store,
                Appt(new_id, call.args[1], call.args[2], call.args[3], call.args[4],
                     call.args[6], call.args[5], "scheduled")))
      [] call.name = "cancel_appointment" ->
            SuccessPayload(Cancelled(store, call.args[1]))
      [] call.name = "reschedule_appointment" ->
            SuccessPayload(Rescheduled(store, call.args[1], call.args[2]))

\* the message the tool node makes of an exception it handles
ToolError(res) == [error |-> res.val, status |-> "error"]

\* the tool messages of one pass of the tool node, in the order of the requests
ToolMessages(results) == [i \in 1..Len(results) |-> ToolMessage(results[i])]

----------------------------------------------------------------------------
(* The pipeline state and the session table *)

\* len(history) > 20, history[-20:]
HistoryLimit == 20

SessionIds == {"s1", "s2"}

\* a turn stored as an assistant turn whatever its role
TurnAsAssistant(role, text) == [role |-> "assistant", text |-> text]

\* {"role": role, "text": text}
Turn(role, text) == [role |-> role, text |-> text]

\* initial_state of process_request
InitialState(session_id, user_text, history_copy) ==
    [session_id |-> session_id, user_text |-> user_text, intent |-> NoIntent,
     conversation_history |-> history_copy, agent_response |-> EmptyText,
     final_response |-> EmptyText, goal_achieved |-> FALSE, error |-> None]

\* the except branch of appointment_agent_node
AppointmentFailed(state, e) ==
    [state EXCEPT !.agent_response = EmptyText, !.goal_achieved = FALSE, !.error = e]

\* the return of appointment_agent_node
AppointmentDone(state, response) ==
    [state EXCEPT !.agent_response = response, !.goal_achieved = TRUE]

\* `final_response or agent_response` at the end of process_request
Returned(result) ==
    IF result.final_response # EmptyText THEN result.final_response
    ELSE result.agent_response

\* history[-20:] keeping every entry
TrimKeepingAll(history) == history

\* a trim that keeps one exchange fewer: history[-18:]
TrimShort(history) == LastN(history, HistoryLimit - 2)

\* a trim that keeps an odd number of entries: history[-19:]
TrimOdd(history) == LastN(history, HistoryLimit - 1)

\* history[-20:]
Trim(history) == LastN(history, HistoryLimit)

\* a process_request call: where it stands, the list object it holds,
\* its pipeline state, the appointment agent's messages; and what an
\* observer records of it (ord, initial, classifier, caught, trace,
\* overlapped, before, after, response); caught is the text of the exception
\* the appointment agent or the responder raised, None when neither raised
Request(pc, ord, history, state, overlapped, before) ==
    [pc |-> pc, agent_pc |-> "agent", ord |-> ord, history |-> history,
     state |-> state, initial |-> state, classifier |-> Raised(None), caught |-> None,
     trace |-> <<>>, overlapped |-> overlapped, before |-> before, after |-> <<>>,
     response |-> EmptyText, messages |-> <<>>, results |-> <<>>, thinks |-> 0]

NoRequest == Request("idle", 0, 0, InitialState("", EmptyText, <<>>), FALSE, <<>>)

----------------------------------------------------------------------------
(* process_request, the pipeline's nodes and the session endpoints as actions *)

\* the process_request calls that may be in flight together
Slots == {1, 2}

InFlight(q) == reqs[q].pc \notin {"idle", "returned"}

\* no call has returned a response its caller has yet to take
NoneReturned == \A q \in Slots : reqs[q].pc # "returned"

\* the calls in flight for session s, other than r
Others(r, s) == {q \in Slots \ {r} : InFlight(q) /\ reqs[q].state.session_id = s}

\* what the table holds for s; a session it does not hold has no turns
Stored(table, heap, s) == IF table[s] = 0 THEN <<>> ELSE heap[table[s]]

PipelineInit ==
    /\ _session_histories = [s \in SessionIds |-> 0]
    /\ lists = <<>>
    /\ reqs = [q \in Slots |-> NoRequest]
    /\ nReqs = 0
    /\ nOverlaps = 0
    /\ nClears = 0
    /\ turns = [s \in SessionIds |-> <<>>]
    /\ serial = [s \in SessionIds |-> TRUE]

\* process_request up to the first await: setdefault, the copy, initial_state
process_request(r, session_id, user_text, limit) ==
    LET present == _session_histories[session_id] # 0
        history == IF present THEN _session_histories[session_id] ELSE Len(lists) + 1
        heap == IF present THEN lists ELSE Append(lists, <<>>)
        others == Others(r, session_id)
    IN /\ NoneReturned
       /\ reqs[r].pc = "idle"
       /\ nReqs < limit
       /\ nReqs' = nReqs + 1
       /\ others = {} \/ nOverlaps < MaxOverlaps
       /\ nOverlaps' = nOverlaps + (IF others = {} THEN 0 ELSE 1)
       /\ lists' = heap
       /\ _session_histories' = [_session_histories EXCEPT ![session_id] = history]
       /\ reqs' = [q \in Slots |->
                     IF q = r
                     THEN Request("detect_intent", nReqs + 1, history,
                                  InitialState(session_id, user_text, heap[history]),
                                  others # {}, heap[history])
                     ELSE IF q \in others THEN [reqs[q] EXCEPT !.overlapped = TRUE]
                     ELSE reqs[q]]
       /\ serial' = [serial EXCEPT ![session_id] = @ /\ others = {}]
       /\ UNCHANGED <<demo, lastCall, nOps, nClears, turns, handle_tool_errors,
                   calendar, use_google_calendar>>

\* a node of the router graph has run: its state, and the node that is next
Ran(r, node, state) ==
    [reqs[r] EXCEPT !.state = state, !.trace = Append(@, node),
                    !.pc = NextNode(node, state)]

\* the detect_intent node, then the conditional edge
DetectIntent(r, outcome) ==
    /\ NoneReturned
    /\ reqs[r].pc = "detect_intent"
    /\ reqs' = [reqs EXCEPT ![r] =
                  [Ran(r, "detect_intent", detect_intent(reqs[r].state, outcome))
                      EXCEPT !.classifier = outcome]]
    /\ UNCHANGED <<demo, lastCall, nOps, _session_histories, lists, nReqs, nOverlaps, nClears,
                   turns, serial, handle_tool_errors,
                   calendar, use_google_calendar>>

\* the general_response node
GeneralResponse(r, outcome) ==
    /\ NoneReturned
    /\ reqs[r].pc = "general_response"
    /\ reqs' = [reqs EXCEPT ![r] =
                  [Ran(r, "general_response", general_response_node(reqs[r].state, outcome))
                      EXCEPT !.caught = outcome.e]]
    /\ UNCHANGED <<demo, lastCall, nOps, _session_histories, lists, nReqs, nOverlaps, nClears,
                   turns, serial, handle_tool_errors,
                   calendar, use_google_calendar>>

\* the appointment_agent node at call_model: the agent graph's THINK step
call_model(r, outcome) ==
    LET req == reqs[r]
        messages == IF req.thinks = 0
                    THEN AgentMessages(req.state.user_text, req.state.conversation_history)
                    ELSE req.messages
        replied == Append(messages, AIMessage(outcome.content, outcome.tool_calls))
    IN /\ NoneReturned
       /\ req.pc = "appointment_agent"
       /\ req.agent_pc = "agent"
       /\ req.thinks < MaxThinks
       /\ reqs' = [reqs EXCEPT ![r] =
            IF outcome.raised
            THEN [Ran(r, "appointment_agent", AppointmentFailed(req.state, outcome.e))
                     EXCEPT !.caught = outcome.e]
            ELSE IF should_continue(replied) = "tools"
            THEN [req EXCEPT !.messages = replied, !.agent_pc = "tools",
                             !.results = <<>>, !.thinks = @ + 1]
            ELSE [Ran(r, "appointment_agent",
                      AppointmentDone(req.state, LastAIContent(replied)))
                     EXCEPT !.messages = replied, !.thinks = @ + 1]]
       /\ UNCHANGED <<demo, lastCall, nOps, _session_histories, lists, nReqs, nOverlaps, nClears,
                      turns, serial, handle_tool_errors,
                   calendar, use_google_calendar>>

\* the supersteps the agent graph has run in call r: its THINKs and ACT passes
Supersteps(req) ==
    IF req.agent_pc = "agent" THEN 2 * req.thinks ELSE 2 * req.thinks - 1

\* the graph run never counts as having reached its recursion limit
LimitNeverReached(req) == FALSE

\* graph.ainvoke is called without a config: the run has the library's
\* recursion limit, and has used it up when that many supersteps have run
LimitReached(req) == Supersteps(req) >= RecursionLimit

\* the appointment_agent node when graph.ainvoke raises GraphRecursionError:
\* the limit is reached and the graph has not come to END
recursion_limit(r) ==
    /\ NoneReturned
    /\ reqs[r].pc = "appointment_agent"
    /\ LimitReached(reqs[r])
    /\ reqs' = [reqs EXCEPT ![r] =
                  [Ran(r, "appointment_agent",
                       AppointmentFailed(reqs[r].state, "GraphRecursionError"))
                      EXCEPT !.caught = "GraphRecursionError"]]
    /\ UNCHANGED <<demo, lastCall, nOps, _session_histories, lists, nReqs, nOverlaps, nClears,
                   turns, serial, handle_tool_errors,
                   calendar, use_google_calendar>>

\* the tool node once a requested tool has run: its result is kept, and with
\* the last result of the pass the tool messages are appended
ToolRan(req, i, calls, ran) ==
    LET results == req.results @@ (i :> IF ran.res.ok THEN ran.res.val ELSE ToolError(ran.res))
    IN IF DOMAIN results = 1..Len(calls)
       THEN [req EXCEPT !.messages = @ \o ToolMessages(results),
                        !.results = <<>>, !.agent_pc = "agent"]
       ELSE [req EXCEPT !.results = results]

\* the step of tool_node for what the tool did
ToolStep(r, i, calls, ran) ==
    /\ demo' = ran.store
    /\ reqs' = [reqs EXCEPT ![r] =
          IF ~ran.res.ok /\ ~handle_tool_errors
          THEN [Ran(r, "appointment_agent", AppointmentFailed(reqs[r].state, ran.res.val))
                   EXCEPT !.caught = ran.res.val]
          ELSE ToolRan(reqs[r], i, calls, ran)]

\* the appointment_agent node at the tool node: one requested tool runs (ACT)
tool_node(r, i, new_id, now, sheet) ==
    /\ NoneReturned
    /\ reqs[r].pc = "appointment_agent"
    /\ reqs[r].agent_pc = "tools"
    /\ i \in (1..Len(reqs[r].messages[Len(reqs[r].messages)].tool_calls))
              \ DOMAIN reqs[r].results
    /\ ToolStep(r, i, reqs[r].messages[Len(reqs[r].messages)].tool_calls,
                RunTool(demo, reqs[r].messages[Len(reqs[r].messages)].tool_calls[i],
                        new_id, now, sheet))
    /\ UNCHANGED <<lastCall, nOps, _session_histories, lists, nReqs, nOverlaps, nClears,
                   turns, serial, handle_tool_errors,
                   calendar, use_google_calendar>>

\* the finalize_response node
FinalizeResponse(r) ==
    /\ NoneReturned
    /\ reqs[r].pc = "finalize_response"
    /\ reqs' = [reqs EXCEPT ![r] =
                  Ran(r, "finalize_response", finalize_response(reqs[r].state))]
    /\ UNCHANGED <<demo, lastCall, nOps, _session_histories, lists, nReqs, nOverlaps, nClears,
                   turns, serial, handle_tool_errors,
                   calendar, use_google_calendar>>

\* process_request after router.ainvoke: the two appends, the trim, the return
process_request_return(r) ==
    LET req == reqs[r]
        session_id == req.state.session_id
        final_response == Returned(req.state)
        exchange == << Turn("user", req.state.user_text),
                       Turn("assistant", final_response) >>
        history == lists[req.history] \o exchange
        heap == [lists EXCEPT ![req.history] = history]
    IN /\ NoneReturned
       /\ req.pc = END
       /\ IF Len(history) > HistoryLimit
          THEN /\ lists' = Append(heap, Trim(history))
               /\ _session_histories' =
                      [_session_histories EXCEPT ![session_id] = Len(lists) + 1]
          ELSE /\ lists' = heap
               /\ UNCHANGED _session_histories
       /\ reqs' = [reqs EXCEPT ![r] =
                     [req EXCEPT !.pc = "returned", !.response = final_response,
                                 !.after = Stored(_session_histories', lists', session_id)]]
       /\ turns' = [turns EXCEPT ![session_id] = @ \o exchange]
       /\ UNCHANGED <<demo, lastCall, nOps, nReqs, nOverlaps, nClears, serial, handle_tool_errors,
                   calendar, use_google_calendar>>

\* the caller has the response of call r
Taken(r) ==
    /\ reqs[r].pc = "returned"
    /\ reqs' = [reqs EXCEPT ![r] = NoRequest]
    /\ UNCHANGED <<demo, lastCall, nOps, _session_histories, lists, nReqs, nOverlaps, nClears,
                   turns, serial, handle_tool_errors,
                   calendar, use_google_calendar>>

\* ProcessResponse(session_id, user_text, response_text, goal_achieved)
ProcessResponse(session_id, user_text, response_text, goal_achieved) ==
    [session_id |-> session_id, user_text |-> user_text,
     response_text |-> response_text, intent |-> None, goal_achieved |-> goal_achieved]

\* what process_text answers for a call of process_request that returned
process_text(req) ==
    ProcessResponse(req.state.session_id, req.state.user_text, req.response, TRUE)

\* the X-Goal-Achieved header process_audio answers with for a call of
\* process_request that returned: "true" once synthesize_speech has given
\* the audio, "false" from the except branch when it raised
process_audio(req, synthesized) ==
    [X_Response_Text |-> IF synthesized THEN req.response ELSE <<"Technical error">>,
     X_Session_Id |-> req.state.session_id,
     X_Goal_Achieved |-> IF synthesized THEN "true" ELSE "false"]

\* a clear that empties the whole table: _session_histories.clear()
clear_every_session(session_id) ==
    LET others == Others(0, session_id)
    IN /\ NoneReturned
       /\ nClears < MaxClears
       /\ nClears' = nClears + 1
       /\ _session_histories' = [s \in SessionIds |-> 0]
       /\ reqs' = [q \in Slots |->
                     IF q \in others THEN [reqs[q] EXCEPT !.overlapped = TRUE] ELSE reqs[q]]
       /\ turns' = [turns EXCEPT ![session_id] = <<>>]
       /\ serial' = [serial EXCEPT ![session_id] = others = {}]
       /\ UNCHANGED <<demo, lastCall, nOps, lists, nReqs, nOverlaps, handle_tool_errors,
                   calendar, use_google_calendar>>

\* clear_session: _session_histories.pop(session_id, None)
clear_session(session_id) ==
    LET others == Others(0, session_id)
    IN /\ NoneReturned
       /\ nClears < MaxClears
       /\ nClears' = nClears + 1
       /\ _session_histories' = [_session_histories EXCEPT ![session_id] = 0]
       /\ reqs' = [q \in Slots |->
                     IF q \in others THEN [reqs[q] EXCEPT !.overlapped = TRUE] ELSE reqs[q]]
       /\ turns' = [turns EXCEPT ![session_id] = <<>>]
       /\ serial' = [serial EXCEPT ![session_id] = others = {}]
       /\ UNCHANGED <<demo, lastCall, nOps, lists, nReqs, nOverlaps, handle_tool_errors,
                   calendar, use_google_calendar>>

----------------------------------------------------------------------------
(* The requests and the model replies the pipeline is run on *)

\* IntentType
IntentTypes ==
    {"schedule_appointment", "cancel_appointment", "reschedule_appointment",
     "check_appointments", "patient_lookup", "general_query", "unknown"}

\* a reply of the classifier that follows its schema
IntentOf(type) ==
    [type |-> type, confidence |-> 9, entities |-> {<<"appointment_id", "APT001">>},
     summary |-> <<"cancel APT001">>]

\* a reply with no type member
Untyped == [confidence |-> 9, entities |-> {}, summary |-> <<"cancel APT001">>]

UserTexts == { <<"Please cancel APT001">> }

ClassifierOutcomes ==
    { Raised("Connection error."),
      Replied(EmptyText),
      Replied(<<Prose>>),
      Replied(<<Prose, JsonObject(IntentOf("cancel_appointment"))>>),
      Replied(<<JsonObject(IntentOf(None))>>),
      Replied(<<JsonArray>>),
      Replied(<<JsonObject(Untyped)>>),
      Replied(<<JsonObject(IntentOf("transfer_funds"))>>),
      Replied(<<Fence, JsonWord, JsonObject(IntentOf("schedule_appointment")), Fence>>),
      Replied(<<Fence, JsonObject(IntentOf("unknown")), Fence>>),
      Replied(<<Fence, Prose, Fence>>) }
      \cup { Replied(<<JsonObject(IntentOf(t))>>) : t \in IntentTypes }

GeneralOutcomes ==
    { Raised("Overloaded"),
      Replied(<<"We are open from 8 to 5.">>),
      Replied(<<Space, "Which day", QMark, Space>>),
      Replied(EmptyText) }

AgentCalls ==
    { << ToolCall("cancel_appointment", <<"apt001">>) >>,
      << ToolCall("cancel_appointment", <<"APT999">>),
         ToolCall("check_availability", <<1, "Dr. Smith", 30>>) >> }

AgentOutcomes ==
    { Raised("rate_limit_error"),
      Raised(""),
      Replied(<<"The appointment is cancelled.">>),
      Replied(<<"Which day suits you", QMark, Space>>),
      Replied(<<Space>>),
      Replied(EmptyText) }
      \cup { Requested(t, calls) : t \in {EmptyText, <<"One moment.">>}, calls \in AgentCalls }

Sheets == { FileNotFoundError }

\* the k-th request's text and the reply to it, for runs that tell turns apart
NthText(k) == << "u" \o ToString(k) >>
NthReply(k) == << "r" \o ToString(k) >>

\* a classifier reply for a general query
GeneralQuery(user_text) ==
    Replied(<<JsonObject([type |-> "general_query", confidence |-> 9, entities |-> {},
                          summary |-> user_text])>>)

----------------------------------------------------------------------------
(* Specifications *)

vars == <<demo, lastCall, nOps, _session_histories, lists, reqs, nReqs, nOverlaps, nClears,
          turns, serial, handle_tool_errors,
                   calendar, use_google_calendar>>

\* the scheduling store under direct calls
StoreInit ==
    /\ \E now \in BootNows : demo = _seed_demo_data(now)
    /\ lastCall = NoCall
    /\ nOps = 0
    /\ PipelineInit
    /\ handle_tool_errors = TRUE
    /\ calendar = NoEvents
    /\ use_google_calendar = FALSE

StoreNext ==
    /\ \/ \E id \in NewIds, prov \in BookProviders, dt \in StartStrings,
              dur \in BookDurations :
             book_appointment(id, "P9Z9Z9", "Dan Evans", prov, dt, "Checkup", dur)
       \/ \E id \in IdArgs : cancel_appointment(id)
       \/ \E id \in IdArgs, dt \in StartStrings : reschedule_appointment(id, dt)
       \/ \E id \in IdArgs : get_appointment(id)
       \/ \E f \in ListFroms, t \in ListTos, n \in ListNames, p \in ListProviders,
              now \in CallNows :
             ListAppointments(f, t, n, p, now)
       \/ \E d \in QueryDates, p \in QueryProviders, dur \in QueryDurations :
             CheckAvailability(d, p, dur)
       \/ Return
    /\ UNCHANGED <<_session_histories, lists, reqs, nReqs, nOverlaps, nClears, turns, serial,
                   handle_tool_errors,
                   use_google_calendar>>

SpecStore == StoreInit /\ [][StoreNext]_vars

\* the scheduling operations by id under either backend
BackendIds == {"APT3F2A1B", "apt3f2a1b", "APT001", "APT999"}

BackendsInit ==
    /\ \E now \in BootNows : demo = _seed_demo_data(now)
    /\ lastCall = NoCall
    /\ nOps = 0
    /\ PipelineInit
    /\ handle_tool_errors = TRUE
    /\ calendar = NoEvents
    /\ use_google_calendar \in BOOLEAN

BackendsNext ==
    /\ \/ \E id \in NewIds, dt \in StartStrings, dur \in BookDurations :
             book_appointment(id, "P9Z9Z9", "Dan Evans", "Dr. Smith", dt, "Checkup", dur)
       \/ \E id \in BackendIds : cancel_appointment(id)
       \/ \E id \in BackendIds, dt \in StartStrings : reschedule_appointment(id, dt)
       \/ \E id \in BackendIds : get_appointment(id)
       \/ Return
    /\ UNCHANGED <<_session_histories, lists, reqs, nReqs, nOverlaps, nClears, turns, serial,
                   handle_tool_errors, use_google_calendar>>

SpecBackends == BackendsInit /\ [][BackendsNext]_vars

\* the pipeline, one request at a time, under every kind of model reply
RouterInit ==
    /\ \E now \in BootNows : demo = _seed_demo_data(now)
    /\ lastCall = NoCall
    /\ nOps = 0
    /\ PipelineInit
    /\ handle_tool_errors \in BOOLEAN
    /\ calendar = NoEvents
    /\ use_google_calendar = FALSE

RouterNext ==
    \/ \E text \in UserTexts : process_request(1, "s1", text, MaxRuns)
    \/ \E outcome \in ClassifierOutcomes : DetectIntent(1, outcome)
    \/ \E outcome \in GeneralOutcomes : GeneralResponse(1, outcome)
    \/ \E outcome \in AgentOutcomes : call_model(1, outcome)
    \/ \E i \in 1..2, new_id \in NewIds, now \in CallNows, sheet \in Sheets :
          tool_node(1, i, new_id, now, sheet)
    \/ recursion_limit(1)
    \/ FinalizeResponse(1)
    \/ process_request_return(1)
    \/ Taken(1)

SpecRouter == RouterInit /\ [][RouterNext]_vars

\* one request that goes to the appointment agent, under every reply of the
\* model; the call is not left waiting forever: the event loop resumes it
\* whenever it can take a step
LoopNext ==
    \/ \E text \in UserTexts : process_request(1, "s1", text, 1)
    \/ DetectIntent(1, Replied(<<JsonObject(IntentOf("cancel_appointment"))>>))
    \/ \E outcome \in AgentOutcomes : Len(outcome.tool_calls) <= 1 /\ call_model(1, outcome)
    \/ \E new_id \in NewIds, now \in CallNows, sheet \in Sheets :
          tool_node(1, 1, new_id, now, sheet)
    \/ recursion_limit(1)
    \/ FinalizeResponse(1)
    \/ process_request_return(1)
    \/ Taken(1)

SpecLoop == RouterInit /\ [][LoopNext]_vars /\ WF_vars(LoopNext /\ reqs[1].pc # "idle")

\* one session's history under overlapping requests and clears; every
\* request is a general query with its own text and its own reply
SessionInit == StoreInit

\* a new call takes the lowest free slot
FreeSlot == CHOOSE r \in Slots : reqs[r].pc = "idle" /\ \A q \in Slots : reqs[q].pc = "idle" => r <= q

SessionNext ==
    \/ /\ \E r \in Slots : reqs[r].pc = "idle"
       /\ process_request(FreeSlot, "s1", NthText(nReqs + 1), MaxExchanges)
    \/ \E r \in Slots : DetectIntent(r, GeneralQuery(reqs[r].state.user_text))
    \/ \E r \in Slots : GeneralResponse(r, Replied(NthReply(reqs[r].ord)))
    \/ \E r \in Slots : FinalizeResponse(r)
    \/ \E r \in Slots : process_request_return(r)
    \/ \E r \in Slots : Taken(r)
    \/ clear_session("s1")

SpecSession == SessionInit /\ [][SessionNext]_vars

\* two sessions' histories under interleaved requests and clears; each
\* session's caller has one request in flight at a time, s2 holds at most
\* MaxOther exchanges, and every request is a general query whose text and
\* reply name its session
TextOf(s, k) == << s \o "u" \o ToString(k) >>
ReplyTo(user_text) == << "re " \o user_text[1] >>

SlotOf(s) == IF s = "s1" THEN 1 ELSE 2

SessionsNext ==
    \/ \E s \in SessionIds :
          /\ reqs[SlotOf(s)].pc = "idle"
          /\ s = "s2" => Len(turns[s]) < 2 * MaxOther
          /\ process_request(SlotOf(s), s, TextOf(s, Len(turns[s]) \div 2 + 1), MaxExchanges)
    \/ \E r \in Slots : DetectIntent(r, GeneralQuery(reqs[r].state.user_text))
    \/ \E r \in Slots : GeneralResponse(r, Replied(ReplyTo(reqs[r].state.user_text)))
    \/ \E r \in Slots : FinalizeResponse(r)
    \/ \E r \in Slots : process_request_return(r)
    \/ \E r \in Slots : Taken(r)
    \/ \E s \in SessionIds : clear_session(s)

SpecSessions == SessionInit /\ [][SessionsNext]_vars

----------------------------------------------------------------------------
(* Claims about the session history *)

\* the exchange a returned call stands for: its user turn, then its response
ExchangeOf(req) ==
    << [role |-> "user", text |-> req.state.user_text],
       [role |-> "assistant", text |-> req.response] >>

\* the stored history of a session; a session the table does not hold has none
StoredHistory(s) ==
    IF _session_histories[s] = 0 THEN <<>> ELSE lists[_session_histories[s]]

\* C1: a process_request call that returns with no other call and no clear
\* of its session overlapping it leaves as the session's stored history the
\* history from before the call, then a user turn with its text, then an
\* assistant turn with the response it returns, cut to the last 20 entries;
\* the session is in the table afterwards, also when it was not before.
C1_ExchangeAppended ==
    \A r \in Slots :
        (reqs[r].pc = "returned" /\ ~reqs[r].overlapped) =>
            LET s == reqs[r].state.session_id
            IN /\ _session_histories[s] # 0
               /\ StoredHistory(s) = LastN(reqs[r].before \o ExchangeOf(reqs[r]), 20)
               /\ reqs[r].after = StoredHistory(s)

\* a call that nothing overlapped has returned on a history that held 20 turns
C1_Witness ==
    \E r \in Slots :
        /\ reqs[r].pc = "returned"
        /\ ~reqs[r].overlapped
        /\ Len(reqs[r].before) = 20
        /\ StoredHistory(reqs[r].state.session_id) # reqs[r].before

\* C2: every stored history has at most 20 entries; in a session whose calls
\* came one after another, it is the last 20 turns of the session's turn
\* sequence in their order, and from the 11th exchange on it has exactly 20.
C2_HistoryBounded ==
    \A s \in SessionIds :
        /\ Len(StoredHistory(s)) <= 20
        /\ serial[s] =>
              /\ StoredHistory(s) = LastN(turns[s], 20)
              /\ Len(turns[s]) >= 2 * 11 => Len(StoredHistory(s)) = 20

\* twelve exchanges, one after another, have been stored in a session
C2_Witness ==
    \E s \in SessionIds :
        /\ serial[s]
        /\ Len(turns[s]) = 2 * 12
        /\ Len(StoredHistory(s)) = 20
        /\ StoredHistory(s)[1] = turns[s][5]

----------------------------------------------------------------------------
(* Claims about the pipeline *)

\* the intent types that select the scheduling agent
SchedulingTypes ==
    {"schedule_appointment", "cancel_appointment", "reschedule_appointment",
     "check_appointments", "patient_lookup"}

\* the intent of call r selects the scheduling agent
SelectsScheduling(r) ==
    /\ "type" \in DOMAIN reqs[r].state.intent
    /\ reqs[r].state.intent.type \in SchedulingTypes

\* the node the router sent call r to, once detect_intent has run
RoutedTo(r) == IF Len(reqs[r].trace) >= 2 THEN reqs[r].trace[2] ELSE reqs[r].pc

Unfenced(content) == SelectSeq(content, LAMBDA p : p.kind \notin {"fence", "json"})

\* the reply of the classifier is the text of one JSON value
IsJsonText(content) ==
    /\ Len(Unfenced(content)) = 1
    /\ Unfenced(content)[1].kind \in {"object", "array"}

\* the classifier raised, or replied with text that is not JSON
ClassifierFailed(outcome) == outcome.raised \/ ~IsJsonText(outcome.content)

\* detect_intent has just returned in call r
JustClassified(r) == reqs[r].trace = <<"detect_intent">> /\ reqs[r].thinks = 0

\* the fallback intent for a text
FallbackIntent(text) ==
    [type |-> "general_query", confidence |-> 3, entities |-> {}, summary |-> text]

\* C4: detect_intent always returns a state; when the classifier raised or
\* replied with text that is not JSON, the state's intent is general_query
\* with confidence 0.3, no entities and the input text as summary, its error
\* holds the reason of the failure, and every other field is as it was given.
C4_FallbackOnFailure ==
    \A r \in Slots :
        JustClassified(r) =>
            /\ reqs[r].pc \in {"appointment_agent", "general_response"}
            /\ ~IsNone(reqs[r].state.intent)
            /\ ClassifierFailed(reqs[r].classifier) =>
                  /\ reqs[r].state.intent = FallbackIntent(reqs[r].initial.user_text)
                  /\ reqs[r].state.error # None
                  /\ reqs[r].classifier.raised => reqs[r].state.error = reqs[r].classifier.e
                  /\ [reqs[r].state EXCEPT !.intent = NoIntent, !.error = None]
                        = reqs[r].initial

\* detect_intent has fallen back on a reply that is prose, with a history given
C4_Witness ==
    /\ JustClassified(1)
    /\ ~reqs[1].classifier.raised
    /\ \E i \in 1..Len(reqs[1].classifier.content) :
           reqs[1].classifier.content[i].kind = "prose"
    /\ reqs[1].state.conversation_history # <<>>

\* the classifier replied with a JSON object that has no type member
LacksType(outcome) ==
    /\ ~outcome.raised
    /\ IsJsonText(outcome.content)
    /\ Unfenced(outcome.content)[1].kind = "object"
    /\ "type" \notin DOMAIN Unfenced(outcome.content)[1].value

\* C5: when the classifier replies with a JSON object that lacks a required
\* field, detect_intent returns the fallback intent and records the reason
\* of the failure; the incomplete object is not passed on as the intent.
C5_FallbackOnMissingField ==
    \A r \in Slots :
        (JustClassified(r) /\ LacksType(reqs[r].classifier)) =>
            /\ reqs[r].state.intent = FallbackIntent(reqs[r].initial.user_text)
            /\ reqs[r].state.error # None

\* C6: the stages of a request run in the order detect_intent, then the one
\* of appointment_agent and general_response that the router selected, then
\* finalize_response, then the end: none runs twice, the one not selected
\* never runs, final_response is empty until finalize_response has run, and
\* nothing runs after it.
C6_StageOrder ==
    \A r \in Slots :
        LET t == reqs[r].trace
            selected == IF SelectsScheduling(r) THEN "appointment_agent"
                        ELSE "general_response"
        IN /\ Len(t) <= 3
           /\ Len(t) = 0 => reqs[r].pc \in {"idle", "detect_intent"}
           /\ Len(t) >= 1 => t[1] = "detect_intent"
           /\ Len(t) = 1 => reqs[r].pc = selected
           /\ Len(t) >= 2 => t[2] = selected
           /\ Len(t) = 2 => reqs[r].pc = "finalize_response"
           /\ Len(t) = 3 => t[3] = "finalize_response" /\ reqs[r].pc \in {END, "returned"}
           /\ Len(t) < 3 => reqs[r].state.final_response = EmptyText

\* a request has gone through the appointment agent and its tools to the end
C6_Witness ==
    /\ reqs[1].pc = "returned"
    /\ reqs[1].trace = <<"detect_intent", "appointment_agent", "finalize_response">>
    /\ reqs[1].thinks = 2
    /\ reqs[1].state.final_response # EmptyText

----------------------------------------------------------------------------
(* Claims about the scheduling engine *)

NotCancelled == {a \in Range(demo) : a.status # "cancelled"}

\* the instant a stored start string denotes, in seconds
StartOf(a) == _parse_dt(a.datetime).val[1]
DayOf(a) == StartOf(a) \div 86400

Distance(x, y) == IF x < y THEN y - x ELSE x - y

\* the 30-minute grid of day d from 08:00 to 17:00, both ends included
Grid(d) ==
    { Seconds(d, HM(WorkStartHour, 0) + StrideMinutes * k, 0) :
        k \in 0..(((WorkEndHour - WorkStartHour) * 60) \div StrideMinutes) }

WorkEnd(d) == Seconds(d, HM(WorkEndHour, 0), 0)

CheckReturned == lastCall.op = "check_availability" /\ lastCall.res.ok
OfferedTimes == { _parse_dt(lastCall.res.val[i]).val[1] : i \in 1..Len(lastCall.res.val) }

C8_NeverErrors ==
    lastCall.op = "check_availability" =>
        /\ lastCall.res.ok
        /\ \A i, j \in 1..Len(lastCall.res.val) :
              i < j => _parse_dt(lastCall.res.val[i]).val[1] < _parse_dt(lastCall.res.val[j]).val[1]

ListReturned == lastCall.op = "list_appointments" /\ lastCall.res.ok

C10_SortedByStart ==
    ListReturned =>
        \A i, j \in 1..Len(lastCall.res.val) :
            i < j => StartOf(lastCall.res.val[i]) <= StartOf(lastCall.res.val[j])

----------------------------------------------------------------------------
(* Booking and identity *)

\* the step is a book_appointment call; the appointment it built is the
\* argument recorded with the call
BookStep == lastCall.op = "none" /\ lastCall'.op = "book_appointment"

\* the appointments of a store that book_appointment created
BookedIn(store) == { a \in Range(store) : a.patient_id = "P9Z9Z9" }

\* C11: book_appointment makes no availability check: a second booking for
\* the provider and start time of an appointment booked before succeeds, and
\* the store then holds both, scheduled, under two distinct ids.
C11_BothBookingsKept ==
    [][ (BookStep /\ \E a \in BookedIn(demo) :
                        /\ a.provider = lastCall'.args[1].provider
                        /\ a.datetime = lastCall'.args[1].datetime
                        /\ a.status = "scheduled")
        => /\ lastCall'.res.ok
           /\ \E a, b \in BookedIn(demo') :
                 /\ a.appointment_id # b.appointment_id
                 /\ a.provider = b.provider /\ a.datetime = b.datetime
                 /\ a.status = "scheduled" /\ b.status = "scheduled" ]_vars

\* C12: a book_appointment call leaves every appointment already stored as it
\* was and adds exactly one; no two stored appointments share an id.
C12_BookingAddsOne ==
    [][ BookStep
        => /\ Len(demo') = Len(demo) + 1
           /\ \A i \in 1..Len(demo) : demo'[i] = demo[i]
           /\ \A i, j \in 1..Len(demo') :
                 demo'[i].appointment_id = demo'[j].appointment_id => i = j ]_vars

\* the ids under which get_appointment finds a record
Gettable(store, cal) ==
    { X \in NewIds : \E a \in Lookup(store, cal, use_google_calendar, X) :
                        a.appointment_id = X }

MutatingStep ==
    /\ lastCall.op = "none"
    /\ lastCall'.op \in {"book_appointment", "cancel_appointment", "reschedule_appointment"}

\* C13: appointments are never physically deleted, under whichever backend:
\* the id of an appointment that book_appointment has just created, and every
\* id get_appointment found before a book, cancel or reschedule call, is
\* found by get_appointment after the call.
C13_NeverDeleted ==
    [][ MutatingStep
        => /\ Gettable(demo, calendar) \subseteq Gettable(demo', calendar')
           /\ (BookStep /\ lastCall'.res.ok)
                 => lastCall'.args[1].appointment_id \in Gettable(demo', calendar') ]_vars

\* the stored ids that are letter-case variants of the given id
VariantsOf(store, cal, appointment_id) ==
    { X \in NewIds \cup {"APT001", "APT002", "APT003"} :
        /\ upper(X) = upper(appointment_id)
        /\ Lookup(store, cal, use_google_calendar, X) # {} }

\* C15: lookup by id is case-insensitive under both backends: a cancel,
\* reschedule (to a start the backend accepts) or get call with a letter-case
\* variant of a stored appointment's id returns that appointment.
C15_LookupIgnoresCase ==
    [][ (/\ lastCall.op = "none"
         /\ lastCall'.op \in {"cancel_appointment", "reschedule_appointment",
                               "get_appointment"}
         /\ lastCall'.op = "reschedule_appointment" => _parse_dt(lastCall'.args[2]).ok
         /\ VariantsOf(demo, calendar, lastCall'.args[1]) # {})
        => /\ lastCall'.res.ok
           /\ lastCall'.op = "get_appointment"
                 => \E a \in Lookup(demo, calendar, use_google_calendar, lastCall'.args[1]) :
                       a.appointment_id \in VariantsOf(demo, calendar, lastCall'.args[1])
           /\ lastCall'.op # "get_appointment"
                 => lastCall'.res.val.appointment_id
                       \in VariantsOf(demo, calendar, lastCall'.args[1]) ]_vars

\* the ids of the appointments the configured backend holds
StoredIds ==
    IF use_google_calendar
    THEN { calendar.items[i].private.appointment_id : i \in 1..Len(calendar.items) }
    ELSE { demo[i].appointment_id : i \in 1..Len(demo) }

UnknownIdStep ==
    /\ lastCall.op = "none"
    /\ lastCall'.op \in {"cancel_appointment", "reschedule_appointment"}
    /\ \A X \in StoredIds : upper(X) # upper(lastCall'.args[1])

\* C14: cancel_appointment and reschedule_appointment with an id that matches
\* no stored appointment, in any letter case, fail with the not-found error
\* and leave the store as it was, under either backend.
C14_UnknownIdFails ==
    [][ UnknownIdStep
        => /\ ~lastCall'.res.ok
           /\ lastCall'.res.val = "ValueError"
           /\ demo' = demo
           /\ calendar' = calendar ]_vars

\* a reschedule under an unknown id has failed after a booking was stored
C14_Witness ==
    /\ lastCall.op = "reschedule_appointment"
    /\ lastCall.args[1] = "APT999"
    /\ ~lastCall.res.ok
    /\ \E X \in StoredIds : X \in NewIds

----------------------------------------------------------------------------
(* The finalizer *)

\* the step is finalize_response of the request in slot 1
Finalizing == reqs[1].pc = "finalize_response" /\ reqs'[1].pc = END

\* the request in slot 1 has been finalized
Finalized == reqs[1].pc = END

\* C16 as stated: with goal_achieved true, a response text that does not end
\* in "?" is trimmed and followed by the closing of the intent type, and one
\* that ends in "?" gets no closing.
C16_ClosingAsStated ==
    [][ (Finalizing /\ reqs[1].state.goal_achieved)
        => IF EndsWithQuestion(reqs[1].state.agent_response)
           THEN reqs'[1].state.final_response \in
                    { reqs[1].state.agent_response, strip(reqs[1].state.agent_response) }
           ELSE reqs'[1].state.final_response =
                    strip(reqs[1].state.agent_response)
                        \o closings(DictGet(reqs[1].state.intent, "type", "")) ]_vars

\* C16: with goal_achieved true, the final text is the technical-failure
\* message when a non-empty error is recorded and the response text is empty;
\* otherwise it is the trimmed response text followed by the closing of the
\* intent type when the trimmed text is non-empty and does not end in "?",
\* and the response text as it is, untrimmed and without a closing, when the
\* trimmed text is empty or ends in "?".
C16_Closing ==
    /\ closings("schedule_appointment")
          = <<Space, "Is there anything else I can help you with", QMark>>
    /\ closings("general_query") = EmptyText
    /\ [][ (Finalizing /\ reqs[1].state.goal_achieved)
            => reqs'[1].state.final_response =
                  IF Truthy(reqs[1].state.error) /\ reqs[1].state.agent_response = EmptyText
                  THEN TechnicalIssue
                  ELSE IF /\ strip(reqs[1].state.agent_response) # EmptyText
                          /\ ~EndsWithQuestion(strip(reqs[1].state.agent_response))
                  THEN strip(reqs[1].state.agent_response)
                           \o closings(DictGet(reqs[1].state.intent, "type", ""))
                  ELSE reqs[1].state.agent_response ]_vars

\* a cancellation whose response got the cancel closing
C16_Witness ==
    /\ Finalized
    /\ reqs[1].state.goal_achieved
    /\ DictGet(reqs[1].state.intent, "type", "") = "cancel_appointment"
    /\ reqs[1].state.agent_response = <<"The appointment is cancelled.">>
    /\ reqs[1].state.final_response =
          <<"The appointment is cancelled.", Space, "The appointment has been cancelled.",
            Space, "Is there anything else", QMark>>

\* C17: finalize_response gives the technical-failure message and sets
\* goal_achieved to false exactly when an error is recorded and the response
\* text is empty; in every other case the final text is made from the
\* response text and goal_achieved is as the stage before left it.
C17_TechnicalIffErrorAndEmpty ==
    [][ Finalizing
        => IF reqs[1].state.error # None /\ reqs[1].state.agent_response = EmptyText
           THEN /\ reqs'[1].state.final_response = TechnicalIssue
                /\ ~reqs'[1].state.goal_achieved
           ELSE /\ reqs'[1].state.final_response # TechnicalIssue
                /\ reqs'[1].state.goal_achieved = reqs[1].state.goal_achieved
                /\ \E closing \in {EmptyText,
                                    closings(DictGet(reqs[1].state.intent, "type", ""))} :
                      reqs'[1].state.final_response \in
                          { reqs[1].state.agent_response \o closing,
                            strip(reqs[1].state.agent_response) \o closing } ]_vars

\* the classifier's reply was parsed as a JSON object
Parsed(outcome) ==
    /\ ~outcome.raised
    /\ IsJsonText(outcome.content)
    /\ Unfenced(outcome.content)[1].kind = "object"

\* detect_intent fell back in call r, and the generic responder then
\* returned without raising
FellBackAndAnswered(r) ==
    /\ ~Parsed(reqs[r].classifier)
    /\ reqs[r].state.intent = FallbackIntent(reqs[r].state.user_text)
    /\ \E i \in 1..Len(reqs[r].trace) : reqs[r].trace[i] = "general_response"
    /\ reqs[r].caught = None

\* C18: a classification failure is never surfaced: a call in which
\* detect_intent fell back and the generic responder returned without raising
\* returns the responder's text, never the technical-failure message.
C18_ClassifierFailureHidden ==
    \A r \in Slots :
        (reqs[r].pc = "returned" /\ FellBackAndAnswered(r))
            => /\ reqs[r].response # TechnicalIssue
               /\ reqs[r].response = reqs[r].state.agent_response

\* C19: an exception raised in the appointment agent or the generic responder
\* is caught: the pipeline goes on to finalize_response and the call returns
\* and appends its exchange; goal_achieved is false, the error field holds the
\* exception's text, and the returned text is one of the fixed apology and
\* technical-failure strings.
C19_ExceptionCaught ==
    \A r \in Slots :
        reqs[r].caught # None
            => /\ reqs[r].pc \in {"finalize_response", END, "returned"}
               /\ reqs[r].state.error = reqs[r].caught
               /\ ~reqs[r].state.goal_achieved
               /\ reqs[r].pc = "returned"
                     => /\ reqs[r].response \in {GeneralApology, TechnicalIssue}
                        /\ LastN(reqs[r].after, 2) = ExchangeOf(reqs[r])

----------------------------------------------------------------------------
(* Tool failures in the reasoning loop *)

\* a request of cancel_appointment or reschedule_appointment under an id the
\* store does not hold
UnknownIdCall(call) ==
    /\ call.name \in {"cancel_appointment", "reschedule_appointment"}
    /\ \A a \in Range(demo) : Spell(a.appointment_id) # upper(call.args[1])

\* a result payload that reports a failure: success=false and a reason
FailurePayload(content) ==
    /\ "success" \in DOMAIN content
    /\ content.success = FALSE
    /\ DOMAIN content \cap {"error", "message", "reason"} # {}

\* C20: a cancel_appointment or reschedule_appointment request under an
\* unknown id does not fail the request: its result, while the tool node keeps
\* it and once it is among the messages of the loop, is a payload with
\* success=false and a reason, and no tool error becomes the request's error.
C20_FailureAsPayload ==
    \A r \in Slots :
        /\ reqs[r].caught # "ValueError"
        /\ reqs[r].agent_pc = "tools"
              => \A i \in DOMAIN reqs[r].results :
                    UnknownIdCall(reqs[r].messages[Len(reqs[r].messages)].tool_calls[i])
                        => FailurePayload(reqs[r].results[i])
        /\ \A k \in 1..Len(reqs[r].messages) :
              \A i \in 1..Len(reqs[r].messages[k].tool_calls) :
                 (k + i <= Len(reqs[r].messages)
                    /\ UnknownIdCall(reqs[r].messages[k].tool_calls[i]))
                   => FailurePayload(reqs[r].messages[k + i].content)

----------------------------------------------------------------------------
(* The reasoning loop *)

\* run_appointment_agent has returned in call r: the graph ended on a reply
\* of the model that requests no tool
AgentReturned(r) ==
    /\ reqs[r].caught = None
    /\ \E i \in 1..Len(reqs[r].trace) : reqs[r].trace[i] = "appointment_agent"

\* the terminal reply of the model in call r
TerminalReply(r) == reqs[r].messages[Len(reqs[r].messages)]

\* C21: when the model returns a message with no tool requests,
\* run_appointment_agent returns the text of that message (the fixed fallback
\* text at most, when the message has none), never the text of an earlier
\* message of the run nor of an assistant turn of the prior history.
C21_TerminalReplyReturned ==
    \A r \in Slots :
        AgentReturned(r)
            => /\ TerminalReply(r).kind = "ai"
               /\ TerminalReply(r).tool_calls = <<>>
               /\ reqs[r].state.agent_response
                     \in {TerminalReply(r).content, UnableToProcess}

\* xs is ys with something appended
IsPrefix(xs, ys) == Len(xs) <= Len(ys) /\ SubSeq(ys, 1, Len(xs)) = xs

\* the step appends a reply of the model to the messages of call 1 (THINK)
Think ==
    /\ Len(reqs'[1].messages) = Len(reqs[1].messages) + 1
          \/ (reqs[1].thinks = 0 /\ reqs'[1].messages # <<>>)
    /\ reqs'[1].messages[Len(reqs'[1].messages)].kind = "ai"
    /\ reqs'[1].thinks = reqs[1].thinks + 1

\* the loop of call 1 is running
InLoop == reqs[1].pc = "appointment_agent"

\* the step ends the loop of call 1 without an exception
LoopEnds == InLoop /\ reqs'[1].pc # "appointment_agent" /\ reqs'[1].caught = None

\* C22: the loop starts in THINK; it enters ACT only by a THINK whose reply
\* requests a tool; an ACT pass appends one tool message per requested tool
\* and hands over to THINK; no reply of the model is appended during ACT; the
\* loop ends only by a THINK whose reply requests no tool; the messages only
\* grow.
C22_ThinkActAlternate ==
    [][ /\ (~InLoop /\ reqs'[1].pc = "appointment_agent")
              => reqs'[1].agent_pc = "agent" /\ reqs'[1].thinks = 0
        /\ (InLoop /\ reqs[1].agent_pc = "agent" /\ reqs'[1].agent_pc = "tools")
              => Think /\ reqs'[1].messages[Len(reqs'[1].messages)].tool_calls # <<>>
        /\ (InLoop /\ reqs[1].agent_pc = "tools")
              => /\ ~Think
                 /\ reqs'[1].caught = None
                       => \/ reqs'[1].agent_pc = "tools" /\ reqs'[1].messages = reqs[1].messages
                          \/ /\ reqs'[1].agent_pc = "agent"
                             /\ InLoop'
                             /\ IsPrefix(reqs[1].messages, reqs'[1].messages)
                             /\ Len(reqs'[1].messages) - Len(reqs[1].messages)
                                   = Len(reqs[1].messages[Len(reqs[1].messages)].tool_calls)
                             /\ \A k \in (Len(reqs[1].messages) + 1)..Len(reqs'[1].messages) :
                                   reqs'[1].messages[k].kind = "tool"
        /\ LoopEnds
              => /\ reqs[1].agent_pc = "agent"
                 /\ Think
                 /\ reqs'[1].messages[Len(reqs'[1].messages)].tool_calls = <<>>
        /\ (InLoop /\ InLoop') => IsPrefix(reqs[1].messages, reqs'[1].messages) ]_vars

\* a run that went THINK, ACT with two tools, THINK and ended
C22_Witness ==
    /\ AgentReturned(1)
    /\ reqs[1].thinks = 2
    /\ \E k \in 1..Len(reqs[1].messages) :
          /\ Len(reqs[1].messages[k].tool_calls) = 2
          /\ Len(reqs[1].messages) = k + 3
          /\ reqs[1].messages[k + 1].kind = "tool"
          /\ reqs[1].messages[k + 2].kind = "tool"
          /\ reqs[1].messages[k + 3].kind = "ai"

\* every reply of the model in call r so far has requested a tool
AlwaysRequesting(r) ==
    \A k \in 1..Len(reqs[r].messages) :
        (reqs[r].messages[k].kind = "ai" /\ k > Len(reqs[r].messages) - 2 * reqs[r].thinks)
            => reqs[r].messages[k].tool_calls # <<>>

----------------------------------------------------------------------------
(* Clearing, isolation and races of the session table *)

\* C24: once clear_session(s) has returned, the stored history of s holds no
\* turn from before the clear: every turn it holds was appended after the
\* clear, also when a request for s was in flight at the clear.
C24_ClearRemovesAll ==
    \A s \in SessionIds :
        nClears > 0
            => \A i \in 1..Len(StoredHistory(s)) :
                  \E j \in 1..Len(turns[s]) : turns[s][j] = StoredHistory(s)[i]

----------------------------------------------------------------------------
(* The two backends against each other *)

\* the appointments the calendar service holds, as the adapter reports them
Reported(cal) == [i \in 1..Len(cal.items) |-> _gcal_event_to_appt(cal.items[i])]

\* the start of an appointment as a time, -1 when its start string is no time
StartTime(a) == IF _parse_dt(a.datetime).ok THEN _parse_dt(a.datetime).val[1] ELSE -1

\* what the contract exposes of an appointment: id, status, start, duration
Exposed(a) == <<a.appointment_id, a.status, StartTime(a), a.duration_minutes>>

ExposedState(store) == { Exposed(store[i]) : i \in 1..Len(store) }

\* two results are the same outcome: both not-found or invalid, or both the
\* same appointment
SameResult(r1, r2) == r1.ok = r2.ok /\ (r1.ok => Exposed(r1.val) = Exposed(r2.val))

\* the result and the state the in-memory functions give for the call, on a
\* store that holds what the calendar holds
InMemory(call, store) ==
    CASE call.op = "book_appointment" -> Booked(store, call.args[1])
      [] call.op = "cancel_appointment" -> Cancelled(store, call.args[1])
      [] call.op = "reschedule_appointment" ->
            Rescheduled(store, call.args[1], call.args[2])

\* C25: the calendar-service adapter behaves as the in-memory store does:
\* each book, cancel and reschedule call returns the outcome, and leaves the
\* appointment state (ids, statuses, start times, durations), that the
\* in-memory function gives on the same appointments, and get_appointment
\* finds the same appointment or nothing in both.
C25_BackendsAgree ==
    [][ (use_google_calendar /\ lastCall.op = "none" /\ lastCall'.op # "none")
        => IF lastCall'.op = "get_appointment"
           THEN { Exposed(a) : a \in Lookup(demo, calendar, TRUE, lastCall'.args[1]) }
                  = { Exposed(a) :
                        a \in Lookup(Reported(calendar), calendar, FALSE, lastCall'.args[1]) }
           ELSE /\ SameResult(lastCall'.res, InMemory(lastCall', Reported(calendar)).res)
                /\ ExposedState(Reported(calendar'))
                      = ExposedState(InMemory(lastCall', Reported(calendar)).store) ]_vars

\* the store of the configured backend
Backend == IF use_google_calendar THEN calendar ELSE demo

\* the call made once more on the given store of the configured backend
Redo(call, store) ==
    IF ~use_google_calendar THEN InMemory(call, store)
    ELSE CASE call.op = "cancel_appointment" -> _gcal_cancel(store, call.args[1])
           [] call.op = "reschedule_appointment" ->
                 _gcal_reschedule(store, call.args[1], call.args[2])
           [] call.op = "book_appointment" -> _gcal_create(store, call.args[1])

\* C26: a cancel_appointment or reschedule_appointment call made a second
\* time leaves the store as the first call left it and returns the same
\* record; a book_appointment call made a second time, under whichever id
\* it draws, adds a second appointment.
C26_Idempotence ==
    [][ (lastCall.op = "none" /\ lastCall'.op \in
            {"cancel_appointment", "reschedule_appointment", "book_appointment"})
        => IF lastCall'.op = "book_appointment"
           THEN (~use_google_calendar /\ lastCall'.res.ok)
                  => \A id \in NewIds :
                        Len(Booked(demo', [lastCall'.args[1] EXCEPT !.appointment_id = id]).store)
                            = Len(demo') + 1
           ELSE /\ Redo(lastCall', Backend').store = Backend'
                /\ Redo(lastCall', Backend').res.ok = lastCall'.res.ok
                /\ lastCall'.res.ok => Redo(lastCall', Backend').res.val = lastCall'.res.val ]_vars

\* the turns a session's requests can store
TurnsOf(s) ==
    { Turn("user", TextOf(s, k)) : k \in 1..MaxExchanges }
        \cup { Turn("assistant", ReplyTo(TextOf(s, k))) : k \in 1..MaxExchanges }

\* a step of session s: a process_request call for s starts or returns, or
\* s is cleared
StepOf(s) ==
    \/ \E r \in Slots, k \in 1..MaxExchanges :
          process_request(r, s, TextOf(s, k), MaxExchanges)
    \/ \E r \in Slots : reqs[r].state.session_id = s /\ process_request_return(r)
    \/ clear_session(s)

\* C27: a process_request call or a clear for session s leaves the stored
\* history of every other session as it was, whatever the interleaving, and
\* the history handed to the pipeline for s, like the stored history of s,
\* holds only turns of s.
C27_SessionsIsolated ==
    /\ [][ \A s \in SessionIds :
              StepOf(s) => \A t \in SessionIds \ {s} : StoredHistory(t)' = StoredHistory(t) ]_vars
    /\ [](\A r \in Slots : InFlight(r) =>
              \A i \in 1..Len(reqs[r].state.conversation_history) :
                  reqs[r].state.conversation_history[i] \in TurnsOf(reqs[r].state.session_id))
    /\ [](\A s \in SessionIds : \A i \in 1..Len(StoredHistory(s)) :
              StoredHistory(s)[i] \in TurnsOf(s))

\* s1 was cleared with a call of its own in flight, while s2 keeps its
\* history and has a call in flight that was handed it
C27_Witness ==
    /\ nClears > 0
    /\ _session_histories["s1"] = 0
    /\ Len(turns["s1"]) = 0
    /\ Len(StoredHistory("s2")) >= 2
    /\ \E r \in Slots : /\ InFlight(r)
                         /\ reqs[r].state.session_id = "s2"
                         /\ reqs[r].state.conversation_history = StoredHistory("s2")
    /\ \E r \in Slots : InFlight(r) /\ reqs[r].state.session_id = "s1"

\* the exchanges of the calls that returned for session s since its last
\* clear
Exchanges(s) == 1..(Len(turns[s]) \div 2)

\* the exchanges of s, fewer than 10 exchanges old, whose user turn the
\* stored history of s does not hold
Lost(s) ==
    { j \in Exchanges(s) :
        /\ Len(turns[s]) \div 2 - j < 10
        /\ \A i \in 1..Len(StoredHistory(s)) : StoredHistory(s)[i] # turns[s][2 * j - 1] }

\* call r returns having appended to a list the table no longer holds for s
StaleReturn(r, s) ==
    /\ reqs[r].pc = END
    /\ reqs'[r].pc = "returned"
    /\ reqs[r].state.session_id = s
    /\ reqs[r].history # _session_histories[s]

\* C28: calls for one session are not serialised; an exchange fewer than 10
\* exchanges old goes missing from the stored history only at the return of
\* a call that appended to a list the table no longer references (and C28_Witness:
\* such a loss happens with overlapping calls alone, after a trim).
C28_LostOnlyByStaleAppend ==
    [][ \A s \in SessionIds :
          (\E j \in Lost(s)' : j \notin Lost(s)) => \E r \in Slots : StaleReturn(r, s) ]_vars

\* with no clear at all, the exchange of a call that returned is missing
\* from the stored history while the exchanges before and after it are there
C28_Witness ==
    /\ nClears = 0
    /\ \E j \in Lost("s1") :
          /\ j - 1 \in Exchanges("s1") \ Lost("s1")
          /\ j + 1 \in Exchanges("s1") \ Lost("s1")

\* the appointments the configured backend holds, as it reports them
Appointments == IF use_google_calendar THEN Reported(calendar) ELSE demo

\* C29: a reschedule_appointment call that finds its appointment changes
\* that appointment's start and nothing else (id, patient, provider,
\* duration, reason and status stay), and no other appointment, under both
\* backends.
C29_RescheduleOnlyStart ==
    [][ (lastCall.op = "none" /\ lastCall'.op = "reschedule_appointment" /\ lastCall'.res.ok)
        => /\ Len(Appointments') = Len(Appointments)
           /\ \A i \in 1..Len(Appointments) :
                 \/ Appointments'[i] = Appointments[i]
                 \/ /\ Appointments[i].appointment_id = lastCall'.res.val.appointment_id
                    /\ [Appointments'[i] EXCEPT !.datetime = Appointments[i].datetime]
                           = Appointments[i] ]_vars

\* the ids of the cancelled appointments of a store
CancelledIds(store) ==
    { store[i].appointment_id : i \in { k \in 1..Len(store) : store[k].status = "cancelled" } }

\* the stores one more book, cancel or reschedule call can leave
AfterOneMore(store) ==
    { Booked(store, Appt(id, "P9Z9Z9", "Dan Evans", "Dr. Smith", dt, 30, "Checkup",
                         "scheduled")).store : id \in NewIds, dt \in StartStrings }
      \cup { Cancelled(store, id).store : id \in IdArgs }
      \cup { Rescheduled(store, id, dt).store : id \in IdArgs, dt \in StartStrings }

\* the ids of the appointments a list_appointments call returns
ListedIds(res) == IF res.ok THEN { res.val[i].appointment_id : i \in 1..Len(res.val) } ELSE {}

\* C30: cancel_appointment on an existing id sets that appointment's status
\* to cancelled and changes nothing else; a cancelled appointment is still
\* cancelled after any further book, cancel or reschedule call, and no
\* list_appointments result holds it.
C30_CancellationPermanent ==
    /\ [][ (lastCall.op = "none" /\ lastCall'.op = "cancel_appointment" /\ lastCall'.res.ok)
            => /\ Len(demo') = Len(demo)
               /\ \A i \in 1..Len(demo) :
                     \/ demo'[i] = demo[i]
                     \/ /\ demo[i].appointment_id = lastCall'.res.val.appointment_id
                        /\ demo'[i] = [demo[i] EXCEPT !.status = "cancelled"] ]_vars
    /\ [](\A id \in CancelledIds(demo) :
             /\ \A after \in AfterOneMore(demo) : id \in CancelledIds(after)
             /\ lastCall.op = "list_appointments" => id \notin ListedIds(lastCall.res))

\* the start strings on the 30-minute grid among those given to
\* book_appointment
GridStarts == { dt \in StartStrings : _parse_dt(dt).ok /\ _parse_dt(dt).val[1] \in Grid(1) }

\* the instant a start string denotes, -1 when it denotes none
Instant(dt) == IF _parse_dt(dt).ok THEN _parse_dt(dt).val[1] ELSE -1

\* slots is the result of a check_availability call that offers start dt
Offered(slots, dt) ==
    slots.ok /\ \E i \in 1..Len(slots.val) : slots.val[i] = strftime(_parse_dt(dt).val)

\* check_availability on the day of start dt offers dt
Offers(store, dt, P, D) ==
    Offered(check_availability(store, Instant(dt) \div 86400, P, D), dt)

\* no non-cancelled appointment of provider P other than id starts within D
\* minutes of start dt
NoOtherNear(store, id, P, dt, D) ==
    \A a \in Range(store) :
        (a.appointment_id # id /\ a.status # "cancelled" /\ a.provider = P
            /\ _parse_dt(a.datetime).ok)
        => Distance(StartOf(a), Instant(dt)) >= D * 60

\* C31: whatever the store holds, once an appointment for provider P is
\* booked at grid time T, check_availability for P on that day does not
\* offer T; once it is cancelled, T is offered again unless another
\* non-cancelled appointment of P starts within D of T; once it is instead
\* rescheduled to another time T2, T is offered again (same proviso) and T2
\* is not offered.
C31_AvailabilityTracksStore ==
    \A P \in BookProviders, T \in GridStarts, D \in QueryDurations, id \in NewIds :
        /\ ~Offers(Booked(demo, Appt(id, "P9Z9Z9", "Dan Evans", P, T, 30, "Checkup",
                                     "scheduled")).store, T, P, D)
        /\ NoOtherNear(demo, id, P, T, D)
              => Offers(Cancelled(Booked(demo, Appt(id, "P9Z9Z9", "Dan Evans", P, T, 30,
                                                    "Checkup", "scheduled")).store,
                                  id).store, T, P, D)
        /\ \A T2 \in GridStarts \ {T} :
              /\ ~Offers(Rescheduled(Booked(demo, Appt(id, "P9Z9Z9", "Dan Evans", P, T, 30,
                                                       "Checkup", "scheduled")).store,
                                     id, T2).store, T2, P, D)
              /\ NoOtherNear(demo, id, P, T, D)
                    => Offers(Rescheduled(Booked(demo, Appt(id, "P9Z9Z9", "Dan Evans", P, T,
                                                            30, "Checkup", "scheduled")).store,
                                          id, T2).store, T, P, D)

\* the provider of the appointment a book, cancel or reschedule call wrote
Touched(call) ==
    IF call.op = "book_appointment" THEN call.args[1].provider ELSE call.res.val.provider

\* two check_availability outcomes are the same: both raise, or both return
\* the same slots
SameSlots(r1, r2) == r1.ok = r2.ok /\ (r1.ok => r1.val = r2.val)

\* C32: a book, cancel or reschedule call on an appointment whose provider
\* name is not P leaves what check_availability(date, P, D) returns as it
\* was, for every date and duration.
C32_OtherProvidersIgnored ==
    [][ (/\ lastCall.op = "none"
         /\ lastCall'.op \in {"book_appointment", "cancel_appointment", "reschedule_appointment"}
         /\ lastCall'.res.ok)
        => \A P \in BookProviders \ {Touched(lastCall')}, d \in QueryDates, D \in QueryDurations :
              SameSlots(check_availability(demo', d, P, D), check_availability(demo, d, P, D)) ]_vars

\* C33: every process_request call that returns has returned a text that
\* is not empty, and stored it as the assistant turn; when the stage that
\* answered left no text, that text is the technical-failure message.
C33_ResponseNeverEmpty ==
    \A r \in Slots :
        reqs[r].pc = "returned"
        => /\ reqs[r].response # EmptyText
           /\ reqs[r].after # <<>>
           /\ reqs[r].after[Len(reqs[r].after)] = Turn("assistant", reqs[r].response)
           /\ reqs[r].state.agent_response = EmptyText => reqs[r].response = TechnicalIssue

\* entries i and i + 1 of a history are the user turn of some request and
\* the assistant turn with the response returned for it
IsExchange(history, i) ==
    \E k \in 1..MaxExchanges :
        /\ history[i] = Turn("user", NthText(k))
        /\ history[i + 1] = Turn("assistant", NthReply(k))

\* C34: under every interleaving of overlapping requests and clears of a
\* session, its stored history has even length and is a sequence of
\* exchanges: a user turn, then the assistant turn that carries the response
\* returned for that user turn.
C34_HistoryAlternates ==
    \A s \in SessionIds :
        /\ Len(StoredHistory(s)) % 2 = 0
        /\ \A i \in 1..Len(StoredHistory(s)) :
              i % 2 = 1 => IsExchange(StoredHistory(s), i)

\* a full history of a session that saw overlapping requests and a clear,
\* and that no longer is the tail of what its requests returned
C34_Witness ==
    /\ Len(StoredHistory("s1")) = 20
    /\ ~serial["s1"]
    /\ nOverlaps > 0
    /\ nClears > 0
    /\ StoredHistory("s1") # LastN(turns["s1"], 20)

\* C35: the goal_achieved value the text endpoint reports, and the
\* X-Goal-Achieved header of the audio endpoint when it answers with the
\* synthesized response, are the goal_achieved flag the pipeline computed
\* for the request.
C35_GoalAchievedReported ==
    \A r \in Slots :
        reqs[r].pc = "returned"
        => /\ process_text(reqs[r]).goal_achieved = reqs[r].state.goal_achieved
           /\ process_audio(reqs[r], TRUE).X_Goal_Achieved
                 = (IF reqs[r].state.goal_achieved THEN "true" ELSE "false")

====
